---- MODULE Spec2Model ----
(***************************************************************************)
(* Model of the two spreadsheet pages of Ztools:                           *)
(*   - the scheduling page (Word-Filter variant, "Variant A"):             *)
(*     src/src/app/apps/scheduling/page.tsx                                *)
(*   - the capacity compiler page (Metric variant, "Variant B"):           *)
(*     src/unnamed/part_000                                                *)
(* Text is modelled as a sequence of one-character strings so that trim,   *)
(* toLowerCase, startsWith, includes, Number() and sort() are computed     *)
(* character by character, as the JavaScript does.                         *)
(***************************************************************************)
EXTENDS Integers, Sequences, FiniteSets, TLC

VARIABLES
    page,             \* the route that is mounted: "scheduling" or "capacity"
    \* ---- scheduling page (Home of scheduling/page.tsx) ----
    files,            \* useState([])  : sequence of file entries
    uniqueWords,      \* useState([])  : sorted token inventory
    wordFilterState,  \* useState({})  : own properties of the filter object
    isModalOpen,      \* useState(false)
    searchTerm,       \* useState('') of FilterConfigModal
    effectPending,    \* the [wordFilterState] effect is scheduled, not yet run
    uploads,          \* processAndAddFiles calls suspended at an await
    \* ---- capacity compiler page (Home of part_000) ----
    queue,            \* useState<File[]>([])  (files)
    isProcessing,     \* useState(false)
    compiledFileUrl,  \* useState<string | null>(null)
    compiledData,     \* useState<ProcessedRow[] | null>(null)
    showPreview,      \* useState(false)
    job,              \* the compileFiles call in flight (its locals)
    lastToast,        \* title of the last toast() call
    \* ---- a call of one of the pure functions of part_000 ----
    arg,              \* the argument
    ret               \* the last call: its argument and what it returned

schedVars == <<files, uniqueWords, wordFilterState, isModalOpen, searchTerm,
               effectPending, uploads>>
compVars  == <<queue, isProcessing, compiledFileUrl, compiledData, showPreview,
               job, lastToast>>
callVars == <<arg, ret>>
vars == <<page, schedVars, compVars, callVars>>

-----------------------------------------------------------------------------
(* Bounds *)

MaxFiles == 2     \* file entries on the scheduling page, dropped ones included
MaxClock == 1     \* distinct values of Date.now()
MaxQueue == 3     \* files in the compiler queue
MaxBatch == 3     \* files of the scheduling page in SpecBatch
MaxYears == 28    \* years after 1996 in SpecWeek
MaxText == 4      \* characters of a text cell in SpecNumber
MaxDays == 80     \* calendar days after 2023-12-25 in SpecZone

-----------------------------------------------------------------------------
(* Text: UTF-16 code units of the printable ASCII range *)

Digits == <<"0", "1", "2", "3", "4", "5", "6", "7", "8", "9">>

UpperCase ==
    <<"A", "B", "C", "D", "E", "F", "G", "H", "I", "J", "K", "L", "M",
      "N", "O", "P", "Q", "R", "S", "T", "U", "V", "W", "X", "Y", "Z">>

LowerCase ==
    <<"a", "b", "c", "d", "e", "f", "g", "h", "i", "j", "k", "l", "m",
      "n", "o", "p", "q", "r", "s", "t", "u", "v", "w", "x", "y", "z">>

IndexOf(seq, c) == CHOOSE i \in 1..Len(seq) : seq[i] = c

DigitSet == {Digits[i] : i \in 1..Len(Digits)}

UpperSet == {UpperCase[i] : i \in 1..Len(UpperCase)}

LowerSet == {LowerCase[i] : i \in 1..Len(LowerCase)}

Punctuation == {" ", "%", "+", "-", ".", "/", "_"}

\* String.prototype.charCodeAt for the characters the documents use
CharCodes ==
    [c \in DigitSet \cup UpperSet \cup LowerSet \cup Punctuation |->
        CASE c \in DigitSet -> 47 + IndexOf(Digits, c)
          [] c \in UpperSet -> 64 + IndexOf(UpperCase, c)
          [] c \in LowerSet -> 96 + IndexOf(LowerCase, c)
          [] c = " " -> 32
          [] c = "%" -> 37
          [] c = "+" -> 43
          [] c = "-" -> 45
          [] c = "." -> 46
          [] c = "/" -> 47
          [] c = "_" -> 95]

CharCode(c) == CharCodes[c]

LowerOf == [c \in UpperSet |-> LowerCase[IndexOf(UpperCase, c)]]

IsUpper(c) == c \in UpperSet

IsDigit(c) == c \in DigitSet

IsSpace(c) == c = " "

\* String.prototype.toLowerCase
ToLowerCase(s) ==
    [i \in 1..Len(s) |-> IF IsUpper(s[i]) THEN LowerOf[s[i]] ELSE s[i]]

RECURSIVE TrimStart(_)
TrimStart(s) ==
    IF s # <<>> /\ IsSpace(Head(s)) THEN TrimStart(Tail(s)) ELSE s

RECURSIVE TrimEnd(_)
TrimEnd(s) ==
    IF s # <<>> /\ IsSpace(s[Len(s)]) THEN TrimEnd(SubSeq(s, 1, Len(s) - 1)) ELSE s

\* String.prototype.trim
Trim(s) == TrimEnd(TrimStart(s))

\* String.prototype.startsWith
StartsWith(s, p) == Len(s) >= Len(p) /\ SubSeq(s, 1, Len(p)) = p

\* String.prototype.includes
Includes(s, p) == \E i \in 0..(Len(s) - Len(p)) : SubSeq(s, i + 1, i + Len(p)) = p

\* a < b by UTF-16 code units: the order of Array.prototype.sort() without a
\* comparator, and of localeCompare on the digits-and-hyphen date strings
RECURSIVE StrLess(_, _)
StrLess(a, b) ==
    IF b = <<>> THEN FALSE
    ELSE IF a = <<>> THEN TRUE
    ELSE IF Head(a) # Head(b) THEN CharCode(Head(a)) < CharCode(Head(b))
    ELSE StrLess(Tail(a), Tail(b))

\* Array.from(set).sort()
RECURSIVE SortWords(_)
SortWords(S) ==
    IF S = {} THEN <<>>
    ELSE LET m == CHOOSE x \in S : \A y \in S : y = x \/ StrLess(x, y)
         IN  <<m>> \o SortWords(S \ {m})

Range(s) == {s[i] : i \in 1..Len(s)}

-----------------------------------------------------------------------------
(* Text literals of the documents and of the code *)

BLANK == <<"_", "_", "B", "L", "A", "N", "K", "_", "_">>

DspPrefix == <<"d", "s", "p", " ", "i", "n", "i", "t", "i", "a", "t", "e", "d", " ", "w", "o", "r", "k">>

wA == <<"A">>

wB == <<"B">>

w2 == <<"2">>

w42 == <<"4", "2">>

wPadA == <<" ", "A", " ">>

wDsp == <<"D", "S", "P", " ", "I", "n", "i", "t", "i", "a", "t", "e", "d", " ", "W", "o", "r", "k", " ", "-", " ", "r", "e", "a", "s", "o", "n">>

wCalledOut == <<"C", "a", "l", "l", "e", "d", " ", "O", "u", "t">>

wConstructor == <<"c", "o", "n", "s", "t", "r", "u", "c", "t", "o", "r">>

wInfinity == <<"I", "n", "f", "i", "n", "i", "t", "y">>

hJan1 == <<"1", "/", "1">>

hJan2 == <<"1", "/", "2">>

hJan3 == <<"1", "/", "3">>

wAcme == <<"A", "c", "m", "e">>

wStation == <<"D", "X", "X", "1">>

-----------------------------------------------------------------------------
(* Number(text): the StringToNumber grammar, as far as isNaN can tell *)

RECURSIVE DigitRun(_)
DigitRun(s) ==
    IF s # <<>> /\ IsDigit(Head(s)) THEN 1 + DigitRun(Tail(s)) ELSE 0

Drop(s, n) == SubSeq(s, n + 1, Len(s))

IsSign(c) == c = "+" \/ c = "-"

AllDigits(s) == s # <<>> /\ DigitRun(s) = Len(s)

\* ExponentPart opt
IsExponentOpt(s) ==
    \/ s = <<>>
    \/ /\ Len(s) >= 2
       /\ s[1] \in {"e", "E"}
       /\ IF IsSign(s[2]) THEN AllDigits(Drop(s, 2)) ELSE AllDigits(Drop(s, 1))

\* StrUnsignedDecimalLiteral
IsUnsignedDecimal(s) ==
    \/ s = wInfinity
    \/ LET n1 == DigitRun(s)
           r1 == Drop(s, n1)
       IN  IF r1 # <<>> /\ Head(r1) = "."
           THEN LET n2 == DigitRun(Tail(r1))
                IN  n1 + n2 >= 1 /\ IsExponentOpt(Drop(Tail(r1), n2))
           ELSE n1 >= 1 /\ IsExponentOpt(r1)

IsHexDigit(c) == IsDigit(c) \/ c \in {"a", "b", "c", "d", "e", "f", "A", "B", "C", "D", "E", "F"}

\* NonDecimalIntegerLiteral: 0x.., 0o.., 0b..
IsNonDecimalInteger(s) ==
    /\ Len(s) >= 3
    /\ s[1] = "0"
    /\ \/ s[2] \in {"x", "X"} /\ \A i \in 3..Len(s) : IsHexDigit(s[i])
       \/ s[2] \in {"o", "O"} /\ \A i \in 3..Len(s) : s[i] \in {"0", "1", "2", "3", "4", "5", "6", "7"}
       \/ s[2] \in {"b", "B"} /\ \A i \in 3..Len(s) : s[i] \in {"0", "1"}

\* !isNaN(Number(s)): white space is stripped, the empty text is 0
NumberIsNotNaN(s) ==
    LET t == Trim(s)
    IN  \/ t = <<>>
        \/ IsNonDecimalInteger(t)
        \/ IF IsSign(Head(t)) THEN IsUnsignedDecimal(Tail(t)) ELSE IsUnsignedDecimal(t)

-----------------------------------------------------------------------------
(* scheduling/page.tsx: utility functions *)

\* the same rule with the prefix compared case-sensitively
isDefaultExcludedCaseSensitive(word) ==
    IF word = BLANK THEN TRUE
    ELSE IF NumberIsNotNaN(word) /\ Trim(word) # <<>> THEN TRUE
    ELSE IF StartsWith(word, DspPrefix) THEN TRUE
    ELSE FALSE

\* lines 14-26
isDefaultExcluded(word) ==
    IF word = BLANK THEN TRUE
    ELSE IF NumberIsNotNaN(word) /\ Trim(word) # <<>> THEN TRUE
    ELSE IF StartsWith(ToLowerCase(word), DspPrefix) THEN TRUE
    ELSE FALSE

\* A cell of sheet_to_json(.., {header: 1, raw: false}): formatted text, or a
\* hole / missing index (undefined)
Undef == [k |-> "undef", s |-> <<>>]

Txt(s) == [k |-> "str", s |-> s]

\* jsonData[r]?.[c], 0-based
CellAt(jsonData, r, c) ==
    IF r + 1 <= Len(jsonData) /\ c + 1 <= Len(jsonData[r + 1])
    THEN jsonData[r + 1][c + 1]
    ELSE Undef

\* truthiness of a cell value
Truthy(cell) == cell.k = "str" /\ cell.s # <<>>

\* String(cellValue || '').trim(), '' replaced by '__BLANK__' (lines 64-69, 92-93)
WordOf(cell) ==
    LET word == Trim(IF Truthy(cell) THEN cell.s ELSE <<>>)
    IN  IF word = <<>> THEN BLANK ELSE word

\* jsonData[3]?.length
HeaderLength(jsonData) == Len(jsonData[4])

\* lines 55-76
extractUniqueWords(jsonData) ==
    IF Len(jsonData) < 4 THEN <<>>
    ELSE SortWords({WordOf(CellAt(jsonData, rowIndex, colIndex)) :
                       rowIndex \in 4..(Len(jsonData) - 1),
                       colIndex \in 2..(HeaderLength(jsonData) - 1)})

\* Property names every object inherits from Object.prototype: a lookup of one
\* of them on the filter object yields a function, not undefined
ProtoKeys == {wConstructor}

\* obj[word] === undefined
IsUndefined(obj, word) == word \notin DOMAIN obj /\ word \notin ProtoKeys

\* obj[word] === false
IsFalse(obj, word) == word \in DOMAIN obj /\ obj[word] = FALSE

\* !obj[word]
Not(obj, word) ==
    IF word \in DOMAIN obj THEN ~obj[word] ELSE word \notin ProtoKeys

\* { ...obj, [word]: value }
Put(obj, word, value) ==
    [w \in DOMAIN obj \cup {word} |-> IF w = word THEN value ELSE obj[w]]

\* a counting rule that takes only an explicit true for an inclusion
isAllowedOnlyIfTrue(state, word) == word \in DOMAIN state /\ state[word]

\* line 97: wordFilterState[word] !== false
isAllowed(state, word) == ~IsFalse(state, word)

\* lines 90-102: the inner loop over the data rows of one column
RECURSIVE CountColumn(_, _, _, _)
CountColumn(jsonData, state, colIndex, rowIndex) ==
    IF rowIndex >= Len(jsonData) THEN 0
    ELSE LET word == WordOf(CellAt(jsonData, rowIndex, colIndex))
         IN  (IF isAllowed(state, word) THEN 1 ELSE 0)
             + CountColumn(jsonData, state, colIndex, rowIndex + 1)

\* a column rule that takes every header cell for a date
hasDateValueAlways(dateValue) == TRUE

\* line 87: if (dateValue)
hasDateValue(dateValue) == Truthy(dateValue)

\* lines 85-111: the outer loop over the columns of the header row
RECURSIVE CountColumns(_, _, _)
CountColumns(jsonData, state, colIndex) ==
    IF colIndex >= HeaderLength(jsonData) THEN <<>>
    ELSE LET dateValue == CellAt(jsonData, 3, colIndex)
         IN  (IF hasDateValue(dateValue)
              THEN <<[rawDate |-> dateValue.s, column |-> colIndex,
                      count |-> CountColumn(jsonData, state, colIndex, 4)]>>
              ELSE <<>>)
             \o CountColumns(jsonData, state, colIndex + 1)

\* lines 79-114 (the display text formatDate(rawDate) of a record is left out)
processExcelData(jsonData, state) ==
    IF Len(jsonData) < 4 THEN <<>> ELSE CountColumns(jsonData, state, 2)


-----------------------------------------------------------------------------
(* Documents offered to the scheduling page *)

\* rows x columns of the data region: [["A","B"],["A",""],["2","A"]]
SheetPlain ==
    << <<>>,
       <<Undef, Txt(wAcme), Txt(wStation)>>,
       <<>>,
       <<Undef, Undef, Txt(hJan1), Txt(hJan2)>>,
       <<Undef, Undef, Txt(wA), Txt(wB)>>,
       <<Undef, Undef, Txt(wA), Txt(<<>>)>>,
       <<Undef, Undef, Txt(w2), Txt(wA)>> >>

\* an empty header cell in column 3, padded text, a ragged last row
SheetMixed ==
    << <<>>,
       <<Undef, Txt(wAcme)>>,
       <<>>,
       <<Undef, Undef, Txt(hJan1), Undef, Txt(hJan3)>>,
       <<Undef, Undef, Txt(wPadA), Txt(w2), Txt(wDsp)>>,
       <<Undef, Undef, Txt(wConstructor)>> >>

\* fewer than four rows
SheetShort ==
    << <<>>,
       <<Undef, Txt(wAcme), Txt(wStation)>> >>

DocNames == {"plain.xlsx", "mixed.xlsx", "short.xlsx", "corrupt.xlsx"}

\* lines 28-46: parseExcelFile rejects when XLSX.read throws
ParseRejects(name) == name = "corrupt.xlsx"

\* the jsonData parseExcelFile resolves with
parseExcelFile(name) ==
    CASE name = "plain.xlsx" -> SheetPlain
      [] name = "mixed.xlsx" -> SheetMixed
      [] name = "short.xlsx" -> SheetShort

\* file.rawData of a file entry (the entry keeps the name, the grid is looked up)
rawData(file) == parseExcelFile(file.fileName)

SearchTerms == {<<>>, <<"A">>}

RECURSIVE SeqsUpTo(_, _)
SeqsUpTo(S, n) ==
    IF n = 0 THEN {<<>>}
    ELSE LET shorter == SeqsUpTo(S, n - 1)
         IN  shorter \cup {Append(q, x) : q \in shorter, x \in S}

-----------------------------------------------------------------------------
(* scheduling/page.tsx: state updaters *)

\* an ingestion that writes the default of every word, present or not
ingestWordAlways(newState, word) == Put(newState, word, ~isDefaultExcluded(word))

\* lines 474-477: the body of the forEach
ingestWord(newState, word) ==
    IF IsUndefined(newState, word)
    THEN Put(newState, word, ~isDefaultExcluded(word))
    ELSE newState

\* lines 471-480: the updater passed to setWordFilterState by an upload
RECURSIVE ingestWords(_, _)
ingestWords(prevFilter, sortedWords) ==
    IF sortedWords = <<>> THEN prevFilter
    ELSE ingestWords(ingestWord(prevFilter, Head(sortedWords)), Tail(sortedWords))

\* lines 458-468: the token inventory after an upload of newFiles
RECURSIVE WordsOfFiles(_)
WordsOfFiles(newFiles) ==
    IF newFiles = <<>> THEN {}
    ELSE Range(extractUniqueWords(rawData(Head(newFiles)))) \cup WordsOfFiles(Tail(newFiles))

\* an updater that builds the inventory from the new files alone
mergeUniqueWordsOfNewFiles(prevWords, newFiles) == SortWords(WordsOfFiles(newFiles))

mergeUniqueWords(prevWords, newFiles) ==
    SortWords(Range(prevWords) \cup WordsOfFiles(newFiles))

\* a toggle that takes the default classification for a word without entry
toggleWordFromDefault(prev, word) ==
    Put(prev, word, IF IsUndefined(prev, word) THEN isDefaultExcluded(word) ELSE Not(prev, word))

\* lines 196-201: the updater of toggleWord
toggleWord(prev, word) ==
    Put(prev, word, IF IsUndefined(prev, word) THEN FALSE ELSE Not(prev, word))

\* a bulk set that reaches every word, whatever the search term
IsVisibleAlways(word, term) == TRUE

\* line 206: the words a bulk set reaches
IsVisible(word, term) == term = <<>> \/ Includes(word, ToLowerCase(term))

\* lines 203-211
RECURSIVE setAllVisible(_, _, _, _)
setAllVisible(state, words, term, status) ==
    IF words = <<>> THEN state
    ELSE setAllVisible(IF IsVisible(Head(words), term)
                       THEN Put(state, Head(words), status)
                       ELSE state,
                       Tail(words), term, status)

\* line 213
filteredWords(words, term) == SelectSeq(words, LAMBDA w : Includes(w, ToLowerCase(term)))

\* lines 491-495: the updater of the effect
recalcFiles(prevFiles, state) ==
    [i \in 1..Len(prevFiles) |->
        [prevFiles[i] EXCEPT !.counts = processExcelData(rawData(prevFiles[i]), state)]]

\* an effect that re-runs only when an upload changed some flag
UploadRetriggersIfChanged(prevFilter, newState) == prevFilter # newState

\* line 472: { ...prevFilter } is a new object, so every upload changes the
\* identity of wordFilterState and re-runs the effect of lines 490-496
UploadRetriggersEffect(prevFilter, newState) == TRUE


-----------------------------------------------------------------------------
(* scheduling/page.tsx: the page as a state machine *)

InitSched ==
    /\ files = <<>>
    /\ uniqueWords = <<>>
    /\ wordFilterState = <<>>
    /\ isModalOpen = FALSE
    /\ searchTerm = <<>>
    /\ effectPending = FALSE
    /\ uploads = <<>>

RECURSIVE SumSelected(_)
SumSelected(us) ==
    IF us = <<>> THEN 0
    ELSE Len(Head(us).selectedFiles) + Len(Head(us).newFiles) + SumSelected(Tail(us))

RemoveAt(seq, i) == SubSeq(seq, 1, i - 1) \o SubSeq(seq, i + 1, Len(seq))

\* lines 317-322, 433-438: a drop calls processAndAddFiles, which runs to its
\* first await
StartUpload(selectedFiles, limit) ==
    /\ page = "scheduling"
    /\ selectedFiles # <<>>
    /\ Len(files) + SumSelected(uploads) + Len(selectedFiles) <= limit
    /\ uploads' = Append(uploads, [selectedFiles |-> selectedFiles, newFiles |-> <<>>])
    /\ UNCHANGED <<files, uniqueWords, wordFilterState, isModalOpen, searchTerm, effectPending>>
    /\ UNCHANGED <<page, compVars, callVars>>

HandleDrop(selectedFiles) == StartUpload(selectedFiles, MaxFiles)

\* the same with batches of up to MaxBatch files
HandleDropBatch(selectedFiles) == StartUpload(selectedFiles, MaxBatch)

\* lines 455-485: the state updates after the loop, committed in one render
CommitUpload(newFiles) ==
    LET sortedWords == mergeUniqueWords(uniqueWords, newFiles)
        newState == ingestWords(wordFilterState, sortedWords)
    IN  /\ files' = files \o newFiles
        /\ uniqueWords' = sortedWords
        /\ wordFilterState' = newState
        /\ effectPending' = UploadRetriggersEffect(wordFilterState, newState)
        /\ isModalOpen' = TRUE
        /\ searchTerm' = searchTerm

\* lines 436-453: the await of parseExcelFile settles for the next file of call
\* u; after the last file the function runs on to its end (lines 455-485)
ParseSettles(u, t) ==
    /\ page = "scheduling"
    /\ u \in 1..Len(uploads)
    /\ LET call == uploads[u]
           file == Head(call.selectedFiles)
           newFiles == IF ParseRejects(file)
                       THEN call.newFiles
                       ELSE Append(call.newFiles,
                                   [id |-> <<file, t>>, fileName |-> file, counts |-> <<>>])
           rest == Tail(call.selectedFiles)
       IN  IF rest # <<>>
           THEN /\ uploads' = [uploads EXCEPT ![u] = [selectedFiles |-> rest, newFiles |-> newFiles]]
                /\ UNCHANGED <<files, uniqueWords, wordFilterState, isModalOpen,
                               searchTerm, effectPending>>
           ELSE /\ ~effectPending
                /\ uploads' = RemoveAt(uploads, u)
                /\ CommitUpload(newFiles)
    /\ UNCHANGED <<page, compVars, callVars>>

\* lines 490-496: the effect on [wordFilterState].  React runs a scheduled
\* effect before it renders the next update, so every other update waits for it
RecalcEffect ==
    /\ page = "scheduling"
    /\ effectPending
    /\ files' = recalcFiles(files, wordFilterState)
    /\ effectPending' = FALSE
    /\ UNCHANGED <<uniqueWords, wordFilterState, isModalOpen, searchTerm, uploads>>
    /\ UNCHANGED <<page, compVars, callVars>>

\* line 287: a click on a listed word
ToggleWord(word) ==
    /\ isModalOpen
    /\ ~effectPending
    /\ word \in Range(filteredWords(uniqueWords, searchTerm))
    /\ wordFilterState' = toggleWord(wordFilterState, word)
    /\ effectPending' = TRUE
    /\ UNCHANGED <<files, uniqueWords, isModalOpen, searchTerm, uploads>>
    /\ UNCHANGED <<page, compVars, callVars>>

\* lines 258, 264: Check All / Uncheck All
SetAllVisible(status) ==
    /\ isModalOpen
    /\ ~effectPending
    /\ wordFilterState' = setAllVisible(wordFilterState, uniqueWords, searchTerm, status)
    /\ effectPending' = TRUE
    /\ UNCHANGED <<files, uniqueWords, isModalOpen, searchTerm, uploads>>
    /\ UNCHANGED <<page, compVars, callVars>>

\* line 253
SetSearchTerm(term) ==
    /\ isModalOpen
    /\ ~effectPending
    /\ term # searchTerm
    /\ searchTerm' = term
    /\ UNCHANGED <<files, uniqueWords, wordFilterState, isModalOpen, effectPending, uploads>>
    /\ UNCHANGED <<page, compVars, callVars>>

\* lines 301, 563-571: closing unmounts the modal and drops its search term
CloseModal ==
    /\ isModalOpen
    /\ ~effectPending
    /\ isModalOpen' = FALSE
    /\ searchTerm' = <<>>
    /\ UNCHANGED <<files, uniqueWords, wordFilterState, effectPending, uploads>>
    /\ UNCHANGED <<page, compVars, callVars>>

\* lines 520-527, 545: Edit Filters and the card's settings button
OpenModal ==
    /\ ~isModalOpen
    /\ ~effectPending
    /\ Len(files) > 0
    /\ isModalOpen' = TRUE
    /\ UNCHANGED <<files, uniqueWords, wordFilterState, searchTerm, effectPending, uploads>>
    /\ UNCHANGED <<page, compVars, callVars>>

\* a removal that also empties the counts of the files that stay
removeFromFilesAndReset(prev, id) ==
    LET kept == SelectSeq(prev, LAMBDA f : f.id # id)
    IN  [i \in 1..Len(kept) |-> [kept[i] EXCEPT !.counts = <<>>]]

\* line 498: the updater prev => prev.filter(f => f.id !== id)
removeFromFiles(prev, id) == SelectSeq(prev, LAMBDA f : f.id # id)

\* line 498
handleRemoveFile(id) ==
    /\ ~effectPending
    /\ \E i \in 1..Len(files) : files[i].id = id
    /\ files' = removeFromFiles(files, id)
    /\ UNCHANGED <<uniqueWords, wordFilterState, isModalOpen, searchTerm, effectPending, uploads>>
    /\ UNCHANGED <<page, compVars, callVars>>

FileIds == DocNames \X (0..(MaxClock - 1))

NextSched ==
    \/ \E selectedFiles \in SeqsUpTo(DocNames, MaxFiles) : HandleDrop(selectedFiles)
    \/ \E u \in 1..MaxFiles, t \in 0..(MaxClock - 1) : ParseSettles(u, t)
    \/ RecalcEffect
    \/ \E word \in Range(uniqueWords) : ToggleWord(word)
    \/ \E status \in BOOLEAN : SetAllVisible(status)
    \/ \E term \in SearchTerms : SetSearchTerm(term)
    \/ CloseModal
    \/ OpenModal
    \/ \E id \in FileIds : handleRemoveFile(id)

-----------------------------------------------------------------------------
(* part_000: values, dates and numbers *)

\* A cell of sheet_to_json(.., {header: 1, defval: null, blankrows: false}):
\* null, a number, text, or a Date object (cellDates: true) of time n
Null == [k |-> "null", s |-> <<>>, n |-> 0]

DateCell(t) == [k |-> "date", s |-> <<>>, n |-> t]

Num(n) == [k |-> "num", s |-> <<>>, n |-> n]

Str(s) == [k |-> "str", s |-> s, n |-> 0]

\* Numbers are kept in units of 1/FixedPoint: 0.45 is 4500, 7 is 70000
FixedPoint == 100 * 100

\* Days between 1970-01-01 and the civil date y-m-d (the proleptic Gregorian
\* calendar of Date.UTC)
DaysFromCivil(y, m, d) ==
    LET yy == IF m <= 2 THEN y - 1 ELSE y
        era == yy \div 400
        yoe == yy - era * 400
        mp == (m + 9) % 12
        doy == (153 * mp + 2) \div 5 + d - 1
        doe == yoe * 365 + yoe \div 4 - yoe \div 100 + doy
    IN  era * 146097 + doe - 719468

\* The civil date of a day number: what getUTCFullYear, getUTCMonth() + 1 and
\* getUTCDate yield
CivilFromDays(z) ==
    LET zz == z + 719468
        era == zz \div 146097
        doe == zz - era * 146097
        yoe == (doe - doe \div 1460 + doe \div 36524 - doe \div 146096) \div 365
        doy == doe - (365 * yoe + yoe \div 4 - yoe \div 100)
        mp == (5 * doy + 2) \div 153
        d == doy - (153 * mp + 2) \div 5 + 1
        m == IF mp < 10 THEN mp + 3 ELSE mp - 9
        y == yoe + era * 400 + (IF m <= 2 THEN 1 ELSE 0)
    IN  [y |-> y, m |-> m, d |-> d]

MinutesPerDay == 24 * 60

\* A Date object: minutes since 1970-01-01T00:00Z
DateUTC(y, m, d) == DaysFromCivil(y, m, d) * MinutesPerDay

\* Number(text) of a run of digits
RECURSIVE DigitsToInt(_)
DigitsToInt(s) ==
    IF s = <<>> THEN 0
    ELSE 10 * DigitsToInt(SubSeq(s, 1, Len(s) - 1)) + (CharCode(s[Len(s)]) - 48)

\* String(n) of a natural number
RECURSIVE IntToText(_)
IntToText(n) ==
    IF n < 10 THEN <<Digits[n + 1]>>
    ELSE IntToText(n \div 10) \o <<Digits[(n % 10) + 1]>>

\* String(n).padStart(2, '0')
PadStart2(n) == IF n < 10 THEN <<"0">> \o IntToText(n) ELSE IntToText(n)

IsLeapYear(y) == (y % 4 = 0 /\ y % 100 # 0) \/ y % 400 = 0

DaysInMonth(y, m) ==
    IF m = 2 THEN (IF IsLeapYear(y) THEN 29 ELSE 28)
    ELSE IF m \in {4, 6, 9, 11} THEN 30 ELSE 31

\* line 137: new Date(text).  Text of the form YYYY-MM-DD is a date-only ISO
\* string and denotes midnight UTC of that day; the other text of the
\* documents ('abc', 'Week') is no date
ParseDateText(s) ==
    IF /\ Len(s) = 10
       /\ s[5] = "-" /\ s[8] = "-"
       /\ \A i \in {1, 2, 3, 4, 6, 7, 9, 10} : IsDigit(s[i])
    THEN LET y == DigitsToInt(SubSeq(s, 1, 4))
             m == DigitsToInt(SubSeq(s, 6, 7))
             d == DigitsToInt(SubSeq(s, 9, 10))
         IN  IF m >= 1 /\ m <= 12 /\ d >= 1 /\ d <= DaysInMonth(y, m)
             THEN [valid |-> TRUE, t |-> DateUTC(y, m, d)]
             ELSE [valid |-> FALSE, t |-> 0]
    ELSE [valid |-> FALSE, t |-> 0]

\* line 143: XLSX.SSF.parse_date_code(value) of a whole serial in the 1900
\* date system: null outside 0..2958465, the fictitious 1900-02-29 for 60
parse_date_code(v) ==
    IF v > 2958465 \/ v < 0 THEN [ok |-> FALSE, y |-> 0, m |-> 0, d |-> 0]
    ELSE IF v = 60 THEN [ok |-> TRUE, y |-> 1900, m |-> 2, d |-> 29]
    ELSE IF v = 0 THEN [ok |-> TRUE, y |-> 1900, m |-> 1, d |-> 0]
    ELSE LET date == IF v > 60 THEN v - 1 ELSE v
             c == CivilFromDays(DaysFromCivil(1900, 1, 1) + date - 1)
         IN  [ok |-> TRUE, y |-> c.y, m |-> c.m, d |-> c.d]

\* lines 78-83
toIsoDateString(date) ==
    LET c == CivilFromDays(date \div MinutesPerDay)
    IN  IntToText(c.y) \o <<"-">> \o PadStart2(c.m) \o <<"-">> \o PadStart2(c.d)

\* String.prototype.split('-')
RECURSIVE SplitDash(_, _)
SplitDash(s, acc) ==
    IF s = <<>> THEN <<acc>>
    ELSE IF Head(s) = "-" THEN <<acc>> \o SplitDash(Tail(s), <<>>)
    ELSE SplitDash(Tail(s), Append(acc, Head(s)))

\* a week count that rounds down
weekOfFloor(dayOfYear, dayOfWeekJan1) == (dayOfYear + dayOfWeekJan1) \div 7

\* a week count in blocks of seven days from January 1
weekOfFromJan1(dayOfYear, dayOfWeekJan1) == (dayOfYear + 6) \div 7

\* line 107: Math.ceil((dayOfYear + dayOfWeekJan1) / 7)
weekOf(dayOfYear, dayOfWeekJan1) == (dayOfYear + dayOfWeekJan1 + 6) \div 7

\* lines 89-108
getWeekNumber(dateStr) ==
    LET parts == SplitDash(dateStr, <<>>)
        year == DigitsToInt(parts[1])
        month == DigitsToInt(parts[2])
        day == DigitsToInt(parts[3])
        current == DateUTC(year, month, day)
        jan1 == DateUTC(year, 1, 1)
        dayOfYear == (current - jan1) \div MinutesPerDay + 1
        \* getUTCDay: 1970-01-01 was a Thursday
        dayOfWeekJan1 == ((jan1 \div MinutesPerDay) + 4) % 7
    IN  weekOf(dayOfYear, dayOfWeekJan1)

\* String.prototype.replace('%', ''): the first occurrence only
RECURSIVE RemoveFirstPercent(_)
RemoveFirstPercent(s) ==
    IF s = <<>> THEN <<>>
    ELSE IF Head(s) = "%" THEN Tail(s)
    ELSE <<Head(s)>> \o RemoveFirstPercent(Tail(s))

\* n * 10^k for k >= 0
RECURSIVE Pow10(_)
Pow10(k) == IF k = 0 THEN 1 ELSE 10 * Pow10(k - 1)

\* the digits after the point, as a fixed-point fraction (four digits kept)
FractionValue(ds) ==
    LET kept == SubSeq(ds, 1, IF Len(ds) < 4 THEN Len(ds) ELSE 4)
    IN  DigitsToInt(kept) * Pow10(4 - Len(kept))

\* parseFloat(text): the longest prefix that is a decimal literal, after
\* leading white space; NaN when there is none (exponents and Infinity are not
\* among the documents' cells)
parseFloat(text) ==
    LET t == TrimStart(text)
        neg == t # <<>> /\ Head(t) = "-"
        u == IF t # <<>> /\ IsSign(Head(t)) THEN Tail(t) ELSE t
        n1 == DigitRun(u)
        r1 == Drop(u, n1)
        n2 == IF r1 # <<>> /\ Head(r1) = "." THEN DigitRun(Tail(r1)) ELSE 0
        magnitude == DigitsToInt(SubSeq(u, 1, n1)) * FixedPoint
                     + (IF n2 > 0 THEN FractionValue(SubSeq(r1, 2, n2 + 1)) ELSE 0)
    IN  IF n1 + n2 = 0 THEN [nan |-> TRUE, v |-> 0]
        ELSE [nan |-> FALSE, v |-> IF neg THEN 0 - magnitude ELSE magnitude]

\* a percentage that is left as it is
percentKept(parsed) == parsed

\* line 65: parsed / 100
percentToFraction(parsed) == parsed \div 100

\* lines 49-72
parseNumber(value) ==
    IF value.k = "null" \/ value = Str(<<"-">>) \/ value = Str(<<>>) THEN Null
    ELSE IF value.k = "num" THEN value
    ELSE IF value.k = "str"
    THEN LET cleanValue == Trim(RemoveFirstPercent(value.s))
             parsed == parseFloat(cleanValue)
         IN  IF ~parsed.nan
             THEN (IF Includes(value.s, <<"%">>) THEN Num(percentToFraction(parsed.v)) ELSE Num(parsed.v))
             ELSE Null
    ELSE Null

-----------------------------------------------------------------------------
(* part_000: the Variant B extractor and the merge *)

MetricNames ==
    <<"Capacity reliability score", "Completed routes", "Amazon paid cancels",
      "DSP dropped routes", "Reliability target", "Route target",
      "Flex-up route target", "Final scheduled", "DSP available capacity">>

\* lines 131-151: what one header cell adds to dates: its canonical date, or
\* nothing when the cell is skipped or is no date
HeaderDate(value) ==
    LET truthy == \/ value.k = "str" /\ value.s # <<>>
                  \/ value.k = "num" /\ value.n # 0
                  \/ value.k = "date"
    IN  IF truthy /\ value # Str(<<"T", "o", "t", "a", "l">>)
        THEN IF value.k = "date" THEN <<toIsoDateString(value.n)>>
             ELSE IF value.k = "str"
             THEN LET parsedDate == ParseDateText(value.s)
                  IN  IF parsedDate.valid THEN <<toIsoDateString(parsedDate.t)>> ELSE <<>>
             ELSE LET parsed == parse_date_code(value.n \div FixedPoint)
                  IN  IF parsed.ok
                      THEN <<toIsoDateString(DateUTC(parsed.y, parsed.m, parsed.d))>>
                      ELSE <<>>
        ELSE <<>>

\* line 137: new Date(text) for text of the form YYYY-MM-DDTHH:mm.  A
\* date-time without offset denotes local time: with the local zone offset
\* minutes ahead of UTC the instant is the UTC reading less offset
ParseDateTimeText(s, offset) ==
    IF /\ Len(s) = 16
       /\ s[5] = "-" /\ s[8] = "-" /\ s[11] = "T" /\ s[14] = ":"
       /\ \A i \in {1, 2, 3, 4, 6, 7, 9, 10, 12, 13, 15, 16} : IsDigit(s[i])
    THEN LET y == DigitsToInt(SubSeq(s, 1, 4))
             m == DigitsToInt(SubSeq(s, 6, 7))
             d == DigitsToInt(SubSeq(s, 9, 10))
             hh == DigitsToInt(SubSeq(s, 12, 13))
             mm == DigitsToInt(SubSeq(s, 15, 16))
         IN  IF m >= 1 /\ m <= 12 /\ d >= 1 /\ d <= DaysInMonth(y, m)
                /\ hh <= 23 /\ mm <= 59
             THEN [valid |-> TRUE, t |-> DateUTC(y, m, d) + hh * 60 + mm - offset]
             ELSE [valid |-> FALSE, t |-> 0]
    ELSE [valid |-> FALSE, t |-> 0]

\* lines 131-151 in a process whose local zone is offset minutes ahead of UTC:
\* HeaderDate, and for text the date-time form, which new Date reads in local
\* time
HeaderDateAt(value, offset) ==
    IF value.k = "str" /\ ParseDateTimeText(value.s, offset).valid
    THEN <<toIsoDateString(ParseDateTimeText(value.s, offset).t)>>
    ELSE HeaderDate(value)

\* a scan that stops at the first cell that is empty or 'Total'
RECURSIVE ScanDatesUntilTotal(_, _)
ScanDatesUntilTotal(dateRow, col) ==
    IF col >= Len(dateRow) THEN <<>>
    ELSE IF dateRow[col + 1] \in {Null, Str(<<>>), Str(<<"T", "o", "t", "a", "l">>)}
         THEN <<>>
         ELSE HeaderDate(dateRow[col + 1]) \o ScanDatesUntilTotal(dateRow, col + 1)

\* lines 128-153: the scan of the first row from column col on
RECURSIVE ScanDates(_, _)
ScanDates(dateRow, col) ==
    IF col >= Len(dateRow) THEN <<>>
    ELSE HeaderDate(dateRow[col + 1]) \o ScanDates(dateRow, col + 1)

\* a || 0
OrZero(v) == IF v.k = "null" \/ v = Num(0) THEN Num(0) ELSE v

\* line 180
dataColIndex(dateIdx) == dateIdx + 1

\* lines 182-216: the value of metric i (row index i) for the date at dateIdx
MetricValue(data, i, dateIdx) ==
    IF i < Len(data) /\ dataColIndex(dateIdx) < Len(data[i + 1])
    THEN LET parsed == parseNumber(data[i + 1][dataColIndex(dateIdx) + 1])
         IN  IF i = 1 THEN OrZero(parsed) ELSE parsed
    ELSE IF i = 1 THEN Num(0) ELSE Null

\* lines 160-219: the rows of the dates found
BuildRows(data, dates) ==
    [dateIdx1 \in 1..Len(dates) |->
        [f \in {"Date", "Week#"} \cup Range(MetricNames) |->
            CASE f = "Date" -> dates[dateIdx1]
              [] f = "Week#" -> getWeekNumber(dates[dateIdx1])
              [] OTHER -> MetricValue(data, IndexOf(MetricNames, f), dateIdx1 - 1)]]

\* lines 110-222, for a sheet with a first row
processExcelFile(data) == BuildRows(data, ScanDates(data[1], 1))

\* a.Date.localeCompare(b.Date) <= 0; the dates are digits and hyphens, which
\* collate in code-unit order
DateLeq(a, b) == ~StrLess(b["Date"], a["Date"])

\* insertion of one row behind the rows that do not come after it
RECURSIVE InsertByDate(_, _)
InsertByDate(sorted, row) ==
    IF sorted = <<>> THEN <<row>>
    ELSE IF DateLeq(Head(sorted), row)
         THEN <<Head(sorted)>> \o InsertByDate(Tail(sorted), row)
         ELSE <<row>> \o sorted

RECURSIVE StableSort(_)
StableSort(rows) ==
    IF rows = <<>> THEN <<>>
    ELSE InsertByDate(StableSort(SubSeq(rows, 1, Len(rows) - 1)), rows[Len(rows)])

\* a merge that leaves the rows in the order of the queue
sortByDateSkipped(allRows) == allRows

\* lines 226 and 418: allRows.sort((a, b) => a.Date.localeCompare(b.Date)),
\* which is stable
sortByDate(allRows) == StableSort(allRows)

\* an encoder whose sort puts rows of the same date in the opposite order
generateCompiledExcelTiesReversed(allRows) ==
    StableSort([i \in 1..Len(allRows) |-> allRows[Len(allRows) + 1 - i]])

\* lines 224-290: the encoder sorts the collection it is handed, in place
generateCompiledExcel(allRows) == sortByDate(allRows)

-----------------------------------------------------------------------------
(* Documents offered to the capacity compiler *)

hTotal == <<"T", "o", "t", "a", "l">>

hAbc == <<"a", "b", "c">>

hLabel == <<"D", "a", "t", "e">>

dMar10 == <<"2", "0", "2", "4", "-", "0", "3", "-", "1", "0">>

dJan05 == <<"2", "0", "2", "4", "-", "0", "1", "-", "0", "5">>

dFeb20 == <<"2", "0", "2", "4", "-", "0", "2", "-", "2", "0">>

t985pct == <<"9", "8", ".", "5", "%">>

t45pct == <<"4", "5", "%">>

tDash == <<"-">>

\* a whole number n as a number cell
Whole(n) == Num(n * FixedPoint)

\* two date columns, later date first, the second a Date object; a ragged
\* row, a '-' cell and cells with text that is no number
DataMar ==
    << <<Str(hLabel), Str(dMar10), DateCell(DateUTC(2024, 1, 5))>>,
       <<Str(hLabel), Str(t985pct), Str(hAbc)>>,
       <<Str(hLabel), Whole(12), Whole(22)>>,
       <<Str(hLabel), Whole(13)>>,
       <<Str(hLabel), Str(tDash), Whole(24)>>,
       <<Str(hLabel), Str(hAbc), Whole(25)>>,
       <<Str(hLabel), Whole(16), Whole(26)>>,
       <<Str(hLabel), Whole(17), Whole(27)>>,
       <<Str(hLabel), Whole(18), Whole(28)>>,
       <<Str(hLabel), Whole(19), Whole(29)>> >>

\* a 'Total' column and an empty header cell before the dates (a serial
\* day-number and text), three rows only
DataFeb ==
    << <<Str(hLabel), Str(hTotal), Whole(45342), Null, Str(dMar10)>>,
       <<Str(hLabel), Whole(1), Str(t45pct), Null, Str(t985pct)>>,
       <<Str(hLabel), Whole(100), Whole(30), Null, Whole(40)>> >>

\* the header row alone
DataHead == << <<Str(hLabel), Str(dJan05)>> >>

\* no header cell is a date
DataNone ==
    << <<Str(hLabel), Str(hTotal), Str(hAbc)>>,
       <<Str(hLabel), Whole(5), Whole(6)>> >>

CompDocs == {"mar.xlsx", "feb.xlsx", "head.xlsx", "none.xlsx", "empty.xlsx", "corrupt.xlsx"}

\* line 116: the data of the first sheet (an empty sheet has no rows)
SheetData(name) ==
    CASE name = "mar.xlsx" -> DataMar
      [] name = "feb.xlsx" -> DataFeb
      [] name = "head.xlsx" -> DataHead
      [] name = "none.xlsx" -> DataNone
      [] name = "empty.xlsx" -> <<>>

\* lines 233-245: the keys of a row of worksheetData, in the order of lines
\* 234-244
ColumnKeys == <<"Date", "Week#">> \o MetricNames

\* the text of a key ('Date' is hLabel)
KeyText(f) ==
    CASE f = "Week#" ->
             <<"W", "e", "e", "k", "#">>
      [] f = "Capacity reliability score" ->
             <<"C", "a", "p", "a", "c", "i", "t", "y", " ", "r", "e", "l", "i",
             "a", "b", "i", "l", "i", "t", "y", " ", "s", "c", "o", "r", "e">>
      [] f = "Completed routes" ->
             <<"C", "o", "m", "p", "l", "e", "t", "e", "d", " ", "r", "o", "u",
             "t", "e", "s">>
      [] f = "Amazon paid cancels" ->
             <<"A", "m", "a", "z", "o", "n", " ", "p", "a", "i", "d", " ", "c",
             "a", "n", "c", "e", "l", "s">>
      [] f = "DSP dropped routes" ->
             <<"D", "S", "P", " ", "d", "r", "o", "p", "p", "e", "d", " ", "r",
             "o", "u", "t", "e", "s">>
      [] f = "Reliability target" ->
             <<"R", "e", "l", "i", "a", "b", "i", "l", "i", "t", "y", " ", "t",
             "a", "r", "g", "e", "t">>
      [] f = "Route target" ->
             <<"R", "o", "u", "t", "e", " ", "t", "a", "r", "g", "e", "t">>
      [] f = "Flex-up route target" ->
             <<"F", "l", "e", "x", "-", "u", "p", " ", "r", "o", "u", "t", "e",
             " ", "t", "a", "r", "g", "e", "t">>
      [] f = "Final scheduled" ->
             <<"F", "i", "n", "a", "l", " ", "s", "c", "h", "e", "d", "u", "l",
             "e", "d">>
      [] f = "DSP available capacity" ->
             <<"D", "S", "P", " ", "a", "v", "a", "i", "l", "a", "b", "l", "e",
             " ", "c", "a", "p", "a", "c", "i", "t", "y">>
      [] OTHER -> hLabel

\* lines 233-287 followed by lines 111-120: the sheet json_to_sheet lays out (a
\* first row of the keys, then one row for each record; a null value leaves
\* its cell empty), written by XLSX.write and read back as a grid (defval:
\* null).  The number format of line 259 changes no value.
CompiledGrid(allRows) ==
    <<[c \in 1..Len(ColumnKeys) |-> Str(KeyText(ColumnKeys[c]))]>>
    \o [r \in 1..Len(allRows) |->
           [c \in 1..Len(ColumnKeys) |->
               IF ColumnKeys[c] = "Date" THEN Str(allRows[r]["Date"])
               ELSE IF ColumnKeys[c] = "Week#" THEN Whole(allRows[r]["Week#"])
               ELSE allRows[r][ColumnKeys[c]]]]

\* a reader that also fails for a sheet without a metric row
FileThrowsBelowTwoRows(name) == name = "corrupt.xlsx" \/ Len(SheetData(name)) < 2

\* lines 394-395: XLSX.read throws on a corrupt container, and line 128 throws
\* a TypeError when the sheet has no first row
FileThrows(name) == name = "corrupt.xlsx" \/ SheetData(name) = <<>>

\* the rows line 395 yields for each readable document
RowsOfDoc == [name \in {n \in CompDocs : ~FileThrows(n)} |-> processExcelFile(SheetData(name))]

-----------------------------------------------------------------------------
(* part_000: the compiler page as a state machine *)

NullData == [null |-> TRUE, rows |-> <<>>]

NoJob == [active |-> FALSE, files |-> <<>>, idx |-> 0, allRows |-> <<>>]

InitComp ==
    /\ queue = <<>>
    /\ isProcessing = FALSE
    /\ compiledFileUrl = "null"
    /\ compiledData = NullData
    /\ showPreview = FALSE
    /\ job = NoJob
    /\ lastToast = "none"

\* a queue change that leaves the published URL as it is
keepCompiledFileUrl(prev) == prev

\* lines 332, 356, 369, 462: setCompiledFileUrl(null) of a queue change
resetCompiledFileUrl(prev) == "null"

\* lines 322-338 and 346-362: the files of a drop or of the file input, after
\* the filter on the file name
AddFiles(added) ==
    /\ page = "capacity"
    /\ Len(queue) + Len(added) <= MaxQueue
    /\ IF added = <<>>
       THEN /\ lastToast' = "Invalid file type"
            /\ UNCHANGED <<queue, compiledFileUrl, compiledData, showPreview>>
       ELSE /\ queue' = queue \o added
            /\ compiledFileUrl' = resetCompiledFileUrl(compiledFileUrl)
            /\ compiledData' = NullData
            /\ showPreview' = FALSE
            /\ lastToast' = "Files added"
    /\ UNCHANGED <<isProcessing, job>>
    /\ UNCHANGED <<page, schedVars, callVars>>

\* lines 314-339
onDrop(droppedFiles) == AddFiles(droppedFiles)

\* lines 341-365
onFileSelect(selectedFiles) == AddFiles(selectedFiles)

\* lines 367-372; the button is disabled while isProcessing (line 578)
removeFile(index) ==
    /\ page = "capacity"
    /\ ~isProcessing
    /\ index \in 0..(Len(queue) - 1)
    /\ queue' = RemoveAt(queue, index + 1)
    /\ compiledFileUrl' = resetCompiledFileUrl(compiledFileUrl)
    /\ compiledData' = NullData
    /\ showPreview' = FALSE
    /\ UNCHANGED <<isProcessing, job, lastToast>>
    /\ UNCHANGED <<page, schedVars, callVars>>

\* lines 460-468; the button is shown for a non-empty queue and disabled while
\* isProcessing (lines 520, 533)
clearAll ==
    /\ page = "capacity"
    /\ ~isProcessing
    /\ Len(queue) > 0
    /\ queue' = <<>>
    /\ compiledFileUrl' = resetCompiledFileUrl(compiledFileUrl)
    /\ compiledData' = NullData
    /\ showPreview' = FALSE
    /\ UNCHANGED <<isProcessing, job, lastToast>>
    /\ UNCHANGED <<page, schedVars, callVars>>

\* lines 374-394: a call of compileFiles (its button is disabled while
\* isProcessing, line 540): with an empty queue it returns at line 381, else it
\* runs to its first await
compileFiles ==
    /\ page = "capacity"
    /\ ~isProcessing
    /\ IF Len(queue) = 0
       THEN /\ lastToast' = "No files to compile"
            /\ UNCHANGED <<isProcessing, compiledFileUrl, compiledData, job>>
       ELSE /\ isProcessing' = TRUE
            /\ compiledFileUrl' = "null"
            /\ compiledData' = NullData
            /\ job' = [active |-> TRUE, files |-> queue, idx |-> 1, allRows |-> <<>>]
            /\ UNCHANGED lastToast
    /\ UNCHANGED <<queue, showPreview>>
    /\ UNCHANGED <<page, schedVars, callVars>>

\* a merge that keeps one row for each date
pushRowsNewDates(allRows, rows) ==
    allRows \o SelectSeq(rows, LAMBDA r :
                   \A i \in 1..Len(allRows) : allRows[i]["Date"] # r["Date"])

\* line 396: allRows.push(...rows)
pushRows(allRows, rows) == allRows \o rows

\* a check that lets an empty collection through
isEmptyBatchNever(allRows) == FALSE

\* line 407
isEmptyBatch(allRows) == Len(allRows) = 0

\* a loop that gives up the remaining files after a failure
nextFileAbortsBatch(idx, n) == n + 1

\* lines 392-405: the catch is inside the loop, which goes on with the next file
nextFileAfterFailure(idx, n) == idx + 1

\* a compile that leaves the page in progress when it is over
processingStays(prev) == prev

\* lines 413 and 445: setIsProcessing(false) on the way out
processingAfterCompile(prev) == FALSE

\* lines 407-446: the end of compileFiles, from the rows of the whole batch.
\* encoded: lines 421-427 return; otherwise the encoder, the Blob or
\* URL.createObjectURL throws, which the catch of line 437 takes up
FinishCompile(allRows, encoded) ==
    IF isEmptyBatch(allRows)
    THEN /\ lastToast' = "No Data"
         /\ isProcessing' = processingAfterCompile(isProcessing)
         /\ UNCHANGED <<compiledFileUrl, compiledData, showPreview>>
    ELSE IF ~encoded
    THEN /\ lastToast' = "Compilation failed"
         /\ isProcessing' = processingAfterCompile(isProcessing)
         /\ UNCHANGED <<compiledFileUrl, compiledData, showPreview>>
    ELSE /\ compiledData' = [null |-> FALSE, rows |-> generateCompiledExcel(sortByDate(allRows))]
         /\ compiledFileUrl' = "blob"
         /\ showPreview' = TRUE
         /\ lastToast' = "Compilation complete"
         /\ isProcessing' = processingAfterCompile(isProcessing)

\* lines 392-446: the await of file.arrayBuffer() settles for the file at
\* job.idx; after the last file compileFiles runs on to its end
FileRead ==
    /\ page = "capacity"
    /\ job.active
    /\ LET file == job.files[job.idx]
           failed == FileThrows(file)
           allRows == IF failed THEN job.allRows ELSE pushRows(job.allRows, RowsOfDoc[file])
           next == IF failed
                   THEN nextFileAfterFailure(job.idx, Len(job.files))
                   ELSE job.idx + 1
       IN  IF next <= Len(job.files)
           THEN /\ job' = [job EXCEPT !.idx = next, !.allRows = allRows]
                /\ lastToast' = IF failed THEN "Processing Error" ELSE lastToast
                /\ UNCHANGED <<isProcessing, compiledFileUrl, compiledData, showPreview>>
           ELSE /\ job' = NoJob
                /\ \E encoded \in BOOLEAN : FinishCompile(allRows, encoded)
    /\ UNCHANGED queue
    /\ UNCHANGED <<page, schedVars, callVars>>

\* line 605
openPreview ==
    /\ page = "capacity"
    /\ compiledFileUrl # "null"
    /\ ~showPreview
    /\ showPreview' = TRUE
    /\ UNCHANGED <<queue, isProcessing, compiledFileUrl, compiledData, job, lastToast>>
    /\ UNCHANGED <<page, schedVars, callVars>>

\* lines 646, 695
closePreview ==
    /\ page = "capacity"
    /\ showPreview
    /\ showPreview' = FALSE
    /\ UNCHANGED <<queue, isProcessing, compiledFileUrl, compiledData, job, lastToast>>
    /\ UNCHANGED <<page, schedVars, callVars>>

NextComp ==
    \/ \E droppedFiles \in SeqsUpTo(CompDocs, MaxQueue) : onDrop(droppedFiles)
    \/ \E selectedFiles \in SeqsUpTo(CompDocs, MaxQueue) : onFileSelect(selectedFiles)
    \/ \E index \in 0..(MaxQueue - 1) : removeFile(index)
    \/ clearAll
    \/ compileFiles
    \/ FileRead
    \/ openPreview
    \/ closePreview

-----------------------------------------------------------------------------
(* Specifications *)

\* no function has been called
NoReturn == [of |-> Null, value |-> Null]

InitCall == arg = Null /\ ret = NoReturn

\* one of the two pages is open
Init ==
    /\ page \in {"scheduling", "capacity"}
    /\ InitSched
    /\ InitComp
    /\ InitCall

Spec == Init /\ [][NextSched \/ NextComp]_vars

\* the capacity compiler page alone
InitCompile == page = "capacity" /\ InitSched /\ InitComp /\ InitCall

SpecCompile == InitCompile /\ [][NextComp]_vars

\* the capacity compiler page where every pending file.arrayBuffer() (line
\* 394) settles: the promise of a file read is resolved or rejected by the
\* browser without any further event of the page
SpecCompileLive == SpecCompile /\ WF_vars(FileRead)

\* the ingest of both pages alone, with batches of up to MaxBatch documents on
\* the scheduling page and one value of Date.now()
NextBatch ==
    \/ \E selectedFiles \in SeqsUpTo(DocNames, MaxBatch) : HandleDropBatch(selectedFiles)
    \/ \E u \in 1..MaxBatch : ParseSettles(u, 0)
    \/ RecalcEffect
    \/ \E droppedFiles \in SeqsUpTo(CompDocs, MaxQueue) : onDrop(droppedFiles)
    \/ compileFiles
    \/ FileRead

SpecBatch == Init /\ [][NextBatch]_vars

\* the scheduling page with uploads in batches of up to MaxBatch documents and
\* clicks on listed words while they are decoded
InitOverlap == page = "scheduling" /\ InitSched /\ InitComp /\ InitCall

NextOverlap ==
    \/ \E selectedFiles \in SeqsUpTo(DocNames, MaxBatch) : HandleDropBatch(selectedFiles)
    \/ \E u \in 1..MaxBatch : ParseSettles(u, 0)
    \/ RecalcEffect
    \/ \E word \in Range(uniqueWords) : ToggleWord(word)

SpecOverlap == InitOverlap /\ [][NextOverlap]_vars

-----------------------------------------------------------------------------
(* FilterConfigModal (lines 187-312) on its own: the modal is open and its   *)
(* props uniqueWords and wordFilterState take every value over a few tokens, *)
(* also values the page never passes (a listed word without entry)           *)

FilterTokens == {wA, w42, BLANK, wConstructor}

FilterStates == UNION {[D -> BOOLEAN] : D \in SUBSET FilterTokens}

InitToggle ==
    /\ files = <<>>
    /\ uniqueWords \in {SortWords(D) : D \in SUBSET FilterTokens}
    /\ wordFilterState \in FilterStates
    /\ isModalOpen = TRUE
    /\ searchTerm = <<>>
    /\ effectPending = FALSE
    /\ uploads = <<>>
    /\ page = "scheduling"
    /\ InitComp
    /\ InitCall

NextToggle ==
    \/ \E word \in Range(uniqueWords) : ToggleWord(word)
    \/ \E term \in SearchTerms : SetSearchTerm(term)
    \/ RecalcEffect

SpecToggle == InitToggle /\ [][NextToggle]_vars

-----------------------------------------------------------------------------
(* Claims about the scheduling page *)

\* C1: an upload never changes an entry that already exists: every token that
\* has a flag before processAndAddFiles commits (set by first-sight default,
\* by a toggle or by a bulk set) has the same flag afterwards, also when the
\* same document is uploaded again.
C1_IngestKeepsExistingFlags ==
    [][uploads' # uploads =>
          \A w \in DOMAIN wordFilterState :
              w \in DOMAIN wordFilterState' /\ wordFilterState'[w] = wordFilterState[w]]_vars

\* plain.xlsx was uploaded, "A" was unchecked and "2" checked, and the same
\* document has just been uploaded again (its counts are still empty)
C1_Witness ==
    /\ effectPending
    /\ Len(files) = 2
    /\ files[1].fileName = "plain.xlsx" /\ files[1].counts # <<>>
    /\ files[2].fileName = "plain.xlsx" /\ files[2].counts = <<>>
    /\ wordFilterState[wA] = FALSE
    /\ wordFilterState[w2] = TRUE

\* C2: once the pending recomputation has run, the counts stored for every
\* retained file are the full recomputation from that file's grid and the
\* current filter state; no file keeps stale or empty counts.
C2_CountsAreFreshAfterEffect ==
    ~effectPending =>
        \A i \in 1..Len(files) :
            files[i].counts = processExcelData(rawData(files[i]), wordFilterState)

\* two files, a flag changed from its default, the effect has run
C2_Witness ==
    /\ ~effectPending
    /\ uploads = <<>>
    /\ Len(files) = 2
    /\ files[1].fileName = "mixed.xlsx"
    /\ files[2].fileName = "plain.xlsx" /\ files[2].counts # <<>>
    /\ wordFilterState[w2] = TRUE

\* the token of a cell: its trimmed text, or the BLANK sentinel when the cell
\* is empty or missing
C3_Token(cell) ==
    IF cell.k = "undef" THEN BLANK
    ELSE IF Trim(cell.s) = <<>> THEN BLANK ELSE Trim(cell.s)

\* the data rows of column c whose token is not flagged false
C3_IncludedRows(jsonData, state, c) ==
    {r \in 4..(Len(jsonData) - 1) :
        LET t == C3_Token(CellAt(jsonData, r, c))
        IN  ~(t \in DOMAIN state /\ state[t] = FALSE)}

\* the flags every token of plain.xlsx gets at first sight
C3_PlainDefaults ==
    /\ {wA, wB, w2, BLANK} \subseteq DOMAIN wordFilterState
    /\ wordFilterState[wA] /\ wordFilterState[wB]
    /\ ~wordFilterState[w2] /\ ~wordFilterState[BLANK]

\* C3: for every column >= 2 with a non-empty header cell the stored count is
\* the number of data rows (index >= 4) whose token has a flag that is not
\* false, a token without entry counting as included; with default flags the
\* column A, A, 2 counts 2 and the column B, blank, A counts 2.
C3_CountIsNumberOfIncludedRows ==
    ~effectPending =>
        \A i \in 1..Len(files) :
            LET jsonData == rawData(files[i])
                counts == files[i].counts
            IN  /\ Len(jsonData) >= 4 =>
                      \A c \in 2..(Len(jsonData[4]) - 1) :
                          (jsonData[4][c + 1].k = "str" /\ jsonData[4][c + 1].s # <<>>) =>
                              \E k \in 1..Len(counts) :
                                  /\ counts[k].column = c
                                  /\ counts[k].count =
                                        Cardinality(C3_IncludedRows(jsonData, wordFilterState, c))
                /\ (files[i].fileName = "plain.xlsx" /\ C3_PlainDefaults) =>
                      /\ counts[1].column = 2 /\ counts[1].count = 2
                      /\ counts[2].column = 3 /\ counts[2].count = 2

\* both documents counted under default flags; "constructor" has no entry and
\* is counted in column 2 of mixed.xlsx
C3_Witness ==
    /\ ~effectPending
    /\ Len(files) = 2
    /\ files[1].fileName = "plain.xlsx"
    /\ files[2].fileName = "mixed.xlsx"
    /\ C3_PlainDefaults
    /\ wConstructor \notin DOMAIN wordFilterState
    /\ files[2].counts[1].count = 2

\* the tokens of the documents that are excluded by default: the sentinel, the
\* numeric text and the text with the reserved prefix
C4_ExcludedTokens == {BLANK, w2, wDsp}

\* C4: classifyDefault (the negation of isDefaultExcluded, line 476) is false
\* exactly for the BLANK sentinel, for text that is a number as a whole and
\* for text that starts, in any letter case, with 'DSP Initiated Work'; every
\* flag an upload creates is that default.
C4_DefaultClassification ==
    /\ isDefaultExcluded(BLANK)
    /\ isDefaultExcluded(w42)
    /\ isDefaultExcluded(wDsp)
    /\ isDefaultExcluded(DspPrefix)
    /\ isDefaultExcluded(<<"-", "4", ".", "5">>)
    /\ ~isDefaultExcluded(wCalledOut)
    /\ ~isDefaultExcluded(<<"4", "2", "A">>)
    /\ ~isDefaultExcluded(<<"D", "S", "P">>)
    /\ ~isDefaultExcluded(wA \o <<" ">> \o DspPrefix)
    /\ [][uploads' # uploads =>
            \A w \in DOMAIN wordFilterState' \ DOMAIN wordFilterState :
                wordFilterState'[w] = (w \notin C4_ExcludedTokens)]_vars

\* mixed.xlsx has just been uploaded: its tokens carry their defaults
C4_Witness ==
    /\ effectPending
    /\ Len(files) = 1
    /\ files[1].fileName = "mixed.xlsx" /\ files[1].counts = <<>>
    /\ wordFilterState[wDsp] = FALSE
    /\ wordFilterState[w2] = FALSE
    /\ wordFilterState[BLANK] = FALSE
    /\ wordFilterState[wA] = TRUE


\* what a toggle of word w does to the entries other than w's: nothing
C5_OnlyEntryOf(w) ==
    /\ DOMAIN wordFilterState' = DOMAIN wordFilterState \cup {w}
    /\ \A v \in DOMAIN wordFilterState \ {w} : wordFilterState'[v] = wordFilterState[v]

-----------------------------------------------------------------------------
(* The capacity compiler: what a batch is expected to yield *)

\* the rows of the documents of a batch that can be read, in queue order
RECURSIVE RowsOfBatch(_)
RowsOfBatch(batch) ==
    IF batch = <<>> THEN <<>>
    ELSE (IF FileThrows(Head(batch)) THEN <<>> ELSE RowsOfDoc[Head(batch)])
         \o RowsOfBatch(Tail(batch))

\* how often row occurs in rows
Occurrences(rows, row) == Cardinality({i \in 1..Len(rows) : rows[i] = row})

\* the Date fields of rows
DatesOf(rows) == [i \in 1..Len(rows) |-> rows[i]["Date"]]

\* a compile ends in this step
CompileEnds == job.active /\ ~job'.active

\* C6: every row of the extractor carries, for each of the nine metrics, the
\* value of the cell in the grid column of the header cell its date came from,
\* also when an earlier header cell (empty, 'Total', no date) was skipped.
\* C6_DateColumns are the grid columns whose header cell yields a date,
\* C6_RowsByColumn the rows read at those columns.
C6_DateColumns(dateRow) ==
    SelectSeq([c \in 1..(Len(dateRow) - 1) |-> c],
              LAMBDA c : HeaderDate(dateRow[c + 1]) # <<>>)

C6_ValueAt(data, i, col) ==
    IF i < Len(data) /\ col < Len(data[i + 1])
    THEN IF i = 1 THEN OrZero(parseNumber(data[i + 1][col + 1]))
                  ELSE parseNumber(data[i + 1][col + 1])
    ELSE IF i = 1 THEN Num(0) ELSE Null

C6_RowsByColumn(data) ==
    LET cols == C6_DateColumns(data[1])
    IN  [k \in 1..Len(cols) |->
            [f \in {"Date", "Week#"} \cup Range(MetricNames) |->
                CASE f = "Date" -> HeaderDate(data[1][cols[k] + 1])[1]
                  [] f = "Week#" -> getWeekNumber(HeaderDate(data[1][cols[k] + 1])[1])
                  [] OTHER -> C6_ValueAt(data, IndexOf(MetricNames, f), cols[k])]]

RECURSIVE C6_BatchByColumn(_)
C6_BatchByColumn(batch) ==
    IF batch = <<>> THEN <<>>
    ELSE (IF FileThrows(Head(batch)) THEN <<>> ELSE C6_RowsByColumn(SheetData(Head(batch))))
         \o C6_BatchByColumn(Tail(batch))

C6_MetricsFromDateColumn ==
    [][job.active =>
          IF job'.active
          THEN job'.allRows = C6_BatchByColumn(SubSeq(job.files, 1, job'.idx - 1))
          ELSE compiledData'.null
               \/ compiledData'.rows = StableSort(C6_BatchByColumn(job.files))]_vars

\* C6, where no header cell before a date is skipped: the rows of mar.xlsx are
\* the rows read at the columns of its dates.
C6_AlignedWithoutSkips ==
    [][(job.active /\ job'.active /\ job'.idx = job.idx + 1
           /\ job.files[job.idx] = "mar.xlsx") =>
          SubSeq(job'.allRows, Len(job.allRows) + 1, Len(job'.allRows))
              = C6_RowsByColumn(SheetData("mar.xlsx"))]_vars

\* feb.xlsx has been read: its row of 2024-02-20 (grid column 2, behind
\* 'Total') carries the metrics of column 1
C6_Witness ==
    /\ job.active
    /\ job.files[1] = "feb.xlsx"
    /\ job.idx = 2
    /\ job.allRows[1]["Date"] = dFeb20
    /\ job.allRows[1]["Completed routes"] = Whole(100)
    /\ C6_RowsByColumn(DataFeb)[1]["Completed routes"] = Whole(30)

\* C7: the published collection is in ascending order of date: of every two
\* adjacent rows the first date is not after the second in code-unit order,
\* whatever the order of the documents and of their rows; the dates 2024-03-10,
\* 2024-01-05, 2024-02-20 come out as 2024-01-05, 2024-02-20, 2024-03-10.
C7_MergedAscending ==
    /\ DatesOf(sortByDate(<<[Date |-> dMar10], [Date |-> dJan05], [Date |-> dFeb20]>>))
           = <<dJan05, dFeb20, dMar10>>
    /\ ~compiledData.null =>
           \A i \in 1..(Len(compiledData.rows) - 1) :
               ~StrLess(compiledData.rows[i + 1]["Date"], compiledData.rows[i]["Date"])

\* mar.xlsx (2024-03-10 before 2024-01-05) and feb.xlsx were compiled
C7_Witness ==
    /\ ~compiledData.null
    /\ queue = <<"mar.xlsx", "feb.xlsx">>
    /\ DatesOf(compiledData.rows) = <<dJan05, dFeb20, dMar10, dMar10>>

\* C8: the published collection holds exactly the rows of the documents that
\* could be read, each as often as the documents hold it: its length is the sum
\* of the documents' row counts and no row is dropped for sharing its date
\* (a compile whose encoder throws publishes nothing).
C8_RowCount(batch) ==
    IF batch = <<>> THEN 0
    ELSE LET counts == [i \in 1..Len(batch) |->
                           IF FileThrows(batch[i]) THEN 0 ELSE Len(RowsOfDoc[batch[i]])]
             sum[i \in 0..Len(batch)] == IF i = 0 THEN 0 ELSE sum[i - 1] + counts[i]
         IN  sum[Len(batch)]

C8_MergedKeepsEveryRow ==
    [][(CompileEnds /\ C8_RowCount(job.files) > 0 /\ lastToast' # "Compilation failed") =>
          /\ ~compiledData'.null
          /\ Len(compiledData'.rows) = C8_RowCount(job.files)
          /\ \A row \in Range(RowsOfBatch(job.files)) \cup Range(compiledData'.rows) :
                 Occurrences(compiledData'.rows, row)
                     = Occurrences(RowsOfBatch(job.files), row)]_vars

\* the same document was compiled twice, and another one with a date of it
C8_Witness ==
    /\ ~compiledData.null
    /\ queue = <<"mar.xlsx", "feb.xlsx", "mar.xlsx">>
    /\ Len(compiledData.rows) = 6
    /\ Cardinality({i \in 1..6 : compiledData.rows[i]["Date"] = dMar10}) = 3
    /\ \E i, j \in 1..6 : i # j /\ compiledData.rows[i] = compiledData.rows[j]

\* C9: a batch with no rows at all (every document failed or had no dates)
\* ends in the error outcome 'No Data' with nothing published: the compiled URL
\* and the compiled rows are null; and a published collection is never empty.
C9_EmptyBatchIsAnError ==
    [][/\ (CompileEnds /\ RowsOfBatch(job.files) = <<>>) =>
              /\ lastToast' = "No Data"
              /\ compiledFileUrl' = "null"
              /\ compiledData'.null
              /\ ~isProcessing'
       /\ (isProcessing /\ isProcessing') => (compiledFileUrl' = "null" /\ compiledData'.null)
       /\ compiledFileUrl' # "null" => (~compiledData'.null /\ compiledData'.rows # <<>>)
       /\ ~compiledData'.null => compiledFileUrl' # "null"]_vars

\* a corrupt document and one without dates were compiled
C9_Witness ==
    /\ queue = <<"corrupt.xlsx", "none.xlsx">>
    /\ lastToast = "No Data"
    /\ ~isProcessing
    /\ ~job.active
    /\ compiledFileUrl = "null"
    /\ compiledData.null

\* C10: a document that cannot be decoded is skipped and the batch goes on; the
\* rows (capacity compiler) and the file entries and words (scheduling page) of
\* every other document of the batch are produced, in the order of the batch.
C10_FileNames(entries) == [i \in 1..Len(entries) |-> entries[i].fileName]

C10_Readable(selectedFiles) == SelectSeq(selectedFiles, LAMBDA f : ~ParseRejects(f))

C10_CompilerStep ==
    job.active =>
        IF job'.active
        THEN /\ job'.files = job.files
             /\ job'.allRows = RowsOfBatch(SubSeq(job.files, 1, job'.idx - 1))
        ELSE IF RowsOfBatch(job.files) = <<>> \/ lastToast' = "Compilation failed"
             THEN compiledData'.null
             ELSE /\ ~compiledData'.null
                  /\ compiledData'.rows = StableSort(RowsOfBatch(job.files))

C10_SchedulingStep ==
    uploads' # uploads =>
        \/ \E selectedFiles \in SeqsUpTo(DocNames, MaxBatch) :
               uploads' = Append(uploads, [selectedFiles |-> selectedFiles, newFiles |-> <<>>])
        \/ \E u \in 1..Len(uploads) :
               LET call == uploads[u]
                   done == C10_FileNames(call.newFiles)
                               \o C10_Readable(<<Head(call.selectedFiles)>>)
               IN  IF Len(call.selectedFiles) > 1
                   THEN /\ uploads' = [uploads EXCEPT ![u] = uploads'[u]]
                        /\ uploads'[u].selectedFiles = Tail(call.selectedFiles)
                        /\ C10_FileNames(uploads'[u].newFiles) = done
                        /\ files' = files
                   ELSE /\ uploads' = RemoveAt(uploads, u)
                        /\ C10_FileNames(files') = C10_FileNames(files) \o done
                        /\ \A i \in 1..Len(done) :
                               Range(extractUniqueWords(parseExcelFile(done[i])))
                                   \subseteq Range(uniqueWords')

C10_FailedDocumentIsSkipped == [][C10_CompilerStep /\ C10_SchedulingStep]_vars

\* a batch with a corrupt document between two readable ones was compiled
C10_Witness ==
    /\ queue = <<"mar.xlsx", "corrupt.xlsx", "feb.xlsx">>
    /\ ~compiledData.null
    /\ lastToast = "Compilation complete"
    /\ compiledData.rows = StableSort(RowsOfDoc["mar.xlsx"] \o RowsOfDoc["feb.xlsx"])

-----------------------------------------------------------------------------
(* The scheduling page: inventory, filter entries and count records *)

\* the words of the data cells of jsonData under the columns from 2 on whose
\* header cell (row 3) is not empty
WordsUnderHeaders(jsonData) ==
    IF Len(jsonData) < 4 THEN {}
    ELSE {WordOf(CellAt(jsonData, rowIndex, colIndex)) :
             rowIndex \in 4..(Len(jsonData) - 1),
             colIndex \in {c \in 2..(HeaderLength(jsonData) - 1) :
                              Truthy(CellAt(jsonData, 3, c))}}

\* the columns from 2 on whose header cell is not empty, left to right
HeaderColumns(jsonData) ==
    IF Len(jsonData) < 4 THEN <<>>
    ELSE SelectSeq([i \in 1..(HeaderLength(jsonData) - 2) |-> i + 1],
                   LAMBDA c : Truthy(CellAt(jsonData, 3, c)))

\* C11: after any uploads, toggles and bulk sets every word of the inventory
\* has an entry of its own in the filter state (a boolean).
C11_EveryWordHasAnEntry ==
    \A word \in Range(uniqueWords) : word \in DOMAIN wordFilterState

\* C11 for the words that are no property name of Object.prototype
C11_EntryUnlessInherited ==
    \A word \in Range(uniqueWords) \ ProtoKeys : word \in DOMAIN wordFilterState

\* mixed.xlsx is uploaded: 'constructor' is listed and has no entry
C11_Witness ==
    /\ wConstructor \in Range(uniqueWords)
    /\ wConstructor \notin DOMAIN wordFilterState
    /\ wA \in DOMAIN wordFilterState
    /\ \E i \in 1..Len(files) : files[i].fileName = "mixed.xlsx"

\* C12: the inventory is taken with the column rule of the counting: cells of
\* a column with an empty header cell are not scanned, so the words an upload
\* adds to the inventory and to the filter state occur under a header of one
\* of its files.
C12_NewWordsOf(newNames) ==
    UNION {WordsUnderHeaders(parseExcelFile(name)) : name \in newNames}

C12_InventorySkipsEmptyHeaders ==
    [][Len(files') > Len(files) =>
          LET newNames == {files'[i].fileName : i \in (Len(files) + 1)..Len(files')}
          IN  /\ Range(uniqueWords') \ Range(uniqueWords) \subseteq C12_NewWordsOf(newNames)
              /\ (DOMAIN wordFilterState') \ (DOMAIN wordFilterState)
                     \subseteq C12_NewWordsOf(newNames)]_vars

\* mixed.xlsx alone is uploaded: '2' occurs only in column 3, whose header
\* cell is empty, and is in the inventory with an entry
C12_Witness ==
    /\ Len(files) = 1
    /\ files[1].fileName = "mixed.xlsx"
    /\ uploads = <<>>
    /\ w2 \notin WordsUnderHeaders(SheetMixed)
    /\ w2 \in Range(uniqueWords)
    /\ w2 \in DOMAIN wordFilterState

\* C13: a file's count records are one for each header cell of the columns
\* from 2 on that is not empty and none for an empty one, in strictly
\* increasing column order, whatever the filter state is.
C13_ColumnsOf(counts) == [i \in 1..Len(counts) |-> counts[i].column]

C13_OneRecordPerHeader ==
    /\ \A i \in 1..Len(files) :
           \/ files[i].counts = <<>>
           \/ C13_ColumnsOf(files[i].counts) = HeaderColumns(rawData(files[i]))
    /\ ~effectPending =>
           \A i \in 1..Len(files) :
               /\ C13_ColumnsOf(files[i].counts) = HeaderColumns(rawData(files[i]))
               /\ \A j \in 1..(Len(files[i].counts) - 1) :
                      files[i].counts[j].column < files[i].counts[j + 1].column

\* mixed.xlsx (header cells in columns 2 and 4, none in 3) is counted under a
\* filter state that differs from the defaults
C13_Witness ==
    /\ ~effectPending
    /\ \E i \in 1..Len(files) :
           /\ files[i].fileName = "mixed.xlsx"
           /\ C13_ColumnsOf(files[i].counts) = <<2, 4>>
    /\ wA \in DOMAIN wordFilterState
    /\ ~wordFilterState[wA]
    /\ wDsp \in DOMAIN wordFilterState
    /\ wordFilterState[wDsp]

-----------------------------------------------------------------------------
(* getWeekNumber on its own: called for the days of a year, one after the   *)
(* other, for the years from 1996 on                                        *)

WeekYears == 1996..(1996 + MaxYears)

\* the date text of January 1 of year y, as toIsoDateString gives it
Jan1Text(y) == toIsoDateString(DateUTC(y, 1, 1))

\* the calendar day of a date text, as minutes since the epoch
DayOfText(dateStr) ==
    LET parts == SplitDash(dateStr, <<>>)
    IN  DateUTC(DigitsToInt(parts[1]), DigitsToInt(parts[2]), DigitsToInt(parts[3]))

\* the date text of the day after dateStr
NextDayText(dateStr) == toIsoDateString(DayOfText(dateStr) + MinutesPerDay)

InitWeek ==
    /\ page = "capacity"
    /\ InitSched
    /\ InitComp
    /\ arg \in {Str(Jan1Text(y)) : y \in WeekYears}
    /\ ret = NoReturn

\* lines 161-162: getWeekNumber(dateStr)
CallGetWeekNumber ==
    /\ arg.k = "str"
    /\ ret.of # arg
    /\ ret' = [of |-> arg, value |-> Whole(getWeekNumber(arg.s))]
    /\ UNCHANGED <<arg, page, schedVars, compVars>>

\* the next date of the same year is taken up
NextDay ==
    /\ ret.of = arg
    /\ SubSeq(NextDayText(arg.s), 1, 4) = SubSeq(arg.s, 1, 4)
    /\ arg' = Str(NextDayText(arg.s))
    /\ UNCHANGED <<ret, page, schedVars, compVars>>

SpecWeek == InitWeek /\ [][CallGetWeekNumber \/ NextDay]_vars

\* the day of the week of a date text, 0 for Sunday (1970-01-01 was a Thursday)
WeekdayOfText(dateStr) == ((DayOfText(dateStr) \div MinutesPerDay) + 4) % 7

\* C14: the week number of January 1 is 1 in every year, and the week number
\* of every calendar date is a whole number, at least 1.
C14_WeekOfJan1IsOne ==
    ret.of.k = "str" =>
        /\ ret.value.k = "num"
        /\ ret.value.n % FixedPoint = 0
        /\ ret.value.n >= FixedPoint
        /\ SubSeq(ret.of.s, 5, 10) = <<"-", "0", "1", "-", "0", "1">> => ret.value = Whole(1)

\* January 1 of 2000, a Saturday, has week 1
C14_Witness ==
    /\ ret.of = Str(Jan1Text(2000))
    /\ WeekdayOfText(ret.of.s) = 6
    /\ ret.value = Whole(1)

\* C15: weeks start on Sunday: of two consecutive days d, d+1 of one year the
\* week number of d+1 is that of d plus 1 when d+1 is a Sunday, and that of d
\* otherwise.
C15_WeeksStartOnSunday ==
    [][(ret' # ret /\ ret.of.k = "str" /\ arg.s = NextDayText(ret.of.s)) =>
          ret'.value.n = ret.value.n
                           + (IF WeekdayOfText(arg.s) = 0 THEN FixedPoint ELSE 0)]_vars

\* 2000-01-02, a Sunday and the day after January 1, has week 2
C15_Witness ==
    /\ ret.of = Str(NextDayText(Jan1Text(2000)))
    /\ WeekdayOfText(ret.of.s) = 0
    /\ ret.value = Whole(2)

-----------------------------------------------------------------------------
(* parseNumber on its own: called once for a cell value *)

NumberChars == {"4", "5", ".", "%", "-", " ", "a"}

\* null, numbers, and every text of up to MaxText of the characters
NumberInputs ==
    {Null, Whole(7), Whole(0), Num(4500), Num(0 - 4500)}
        \cup {Str(s) : s \in SeqsUpTo(NumberChars, MaxText)}

InitNumber ==
    /\ page = "capacity"
    /\ InitSched
    /\ InitComp
    /\ arg \in NumberInputs
    /\ ret = NoReturn

\* lines 183-215: parseNumber(data[i][dataColIndex])
CallParseNumber ==
    /\ ret = NoReturn
    /\ ret' = [of |-> arg, value |-> parseNumber(arg)]
    /\ UNCHANGED <<arg, page, schedVars, compVars>>

SpecNumber == InitNumber /\ [][CallParseNumber]_vars

\* text that is a decimal numeral as a whole: an optional sign, then digits
\* with an optional point and fraction, or a point and a fraction
IsNumeral(s) ==
    LET u == IF s # <<>> /\ IsSign(Head(s)) THEN Tail(s) ELSE s
        n1 == DigitRun(u)
        r1 == Drop(u, n1)
    IN  \/ n1 > 0 /\ r1 = <<>>
        \/ n1 > 0 /\ Head(r1) = "." /\ AllDigits(Tail(r1))
        \/ n1 = 0 /\ r1 # <<>> /\ Head(r1) = "." /\ Tail(r1) # <<>> /\ AllDigits(Tail(r1))

\* the value of a numeral, in units of 1/FixedPoint
NumeralValue(s) ==
    LET neg == Head(s) = "-"
        u == IF IsSign(Head(s)) THEN Tail(s) ELSE s
        n1 == DigitRun(u)
        fraction == IF n1 < Len(u) THEN SubSeq(u, n1 + 2, Len(u)) ELSE <<>>
        magnitude == DigitsToInt(SubSeq(u, 1, n1)) * FixedPoint
                     + (IF fraction # <<>> THEN FractionValue(fraction) ELSE 0)
    IN  IF neg THEN 0 - magnitude ELSE magnitude

\* text that is a numeral followed by '%'
IsPercent(s) == s # <<>> /\ s[Len(s)] = "%" /\ IsNumeral(SubSeq(s, 1, Len(s) - 1))

\* C16: a text that is a number with a '%' suffix yields that number divided
\* by 100 ("45%" gives 0.45); a number and a text that is a number pass through
\* unchanged (7 gives 7); white space around the text is ignored.
C16_PercentIsAFraction ==
    /\ parseNumber(Str(<<"4", "5", "%">>)) = Num(45 * (FixedPoint \div 100))
    /\ parseNumber(Whole(7)) = Whole(7)
    /\ ret.of.k = "num" => ret.value = ret.of
    /\ ret.of.k = "str" =>
           LET t == Trim(ret.of.s)
           IN  /\ IsPercent(t) =>
                      ret.value = Num(NumeralValue(SubSeq(t, 1, Len(t) - 1)) \div 100)
               /\ IsNumeral(t) => ret.value = Num(NumeralValue(t))

\* " 45%" was normalised to 0.45
C16_Witness ==
    /\ ret.of = Str(<<" ", "4", "5", "%">>)
    /\ ret.value = Num(4500)

\* C17: null comes back for an empty cell, for '-' and for every text that is
\* not a number as a whole (text that only begins with digits, text without
\* digits that holds a '%'); no number comes back for such a text.
C17_IsNumberText(s) == IsNumeral(Trim(s)) \/ IsPercent(Trim(s))

C17_NullUnlessANumber ==
    /\ parseNumber(Null) = Null
    /\ parseNumber(Str(<<"-">>)) = Null
    /\ parseNumber(Str(<<>>)) = Null
    /\ (ret.of.k = "str" /\ ~C17_IsNumberText(ret.of.s)) => ret.value = Null

\* C17 for an empty cell, '-', the empty text and text that does not begin with
\* a number
C17_NullWithoutNumericPrefix ==
    /\ ret.of.k = "null" => ret.value = Null
    /\ ret.of \in {Str(<<"-">>), Str(<<>>)} => ret.value = Null
    /\ (ret.of.k = "str" /\ parseFloat(Trim(RemoveFirstPercent(ret.of.s))).nan) =>
           ret.value = Null

\* "4a" only begins with a digit and was normalised to 4
C17_Witness ==
    /\ ret.of = Str(<<"4", "a">>)
    /\ ret.value = Whole(4)

-----------------------------------------------------------------------------
(* The capacity compiler: the rows of one document *)

\* the file at the cursor is read without failure and is not the last one
ReadsOne == job.active /\ job'.active /\ job'.idx = job.idx + 1 /\ ~FileThrows(job.files[job.idx])

\* the rows that step adds
RowsRead == SubSeq(job'.allRows, Len(job.allRows) + 1, Len(job'.allRows))

\* the cell of metric i in grid column col is missing, or holds no number
NoNumberAt(data, i, col) ==
    \/ i >= Len(data)
    \/ col >= Len(data[i + 1])
    \/ parseNumber(data[i + 1][col + 1]) = Null

\* C18: in every row the capacity reliability score is a number, 0 when its
\* cell (the cell of metric row 1 in the column of the row's date) is missing
\* or holds no number; each of the other eight metrics is null when its cell is
\* missing or holds no number, and the normalised number of its cell otherwise.
C18_RowFollowsCells(data, row, col) ==
    /\ row[MetricNames[1]].k = "num"
    /\ NoNumberAt(data, 1, col) => row[MetricNames[1]] = Num(0)
    /\ \A i \in 2..9 :
           IF NoNumberAt(data, i, col)
           THEN row[MetricNames[i]] = Null
           ELSE row[MetricNames[i]] = parseNumber(data[i + 1][col + 1])

C18_MetricDefaults ==
    [][ReadsOne =>
          LET data == SheetData(job.files[job.idx])
              cols == C6_DateColumns(data[1])
          IN  /\ Len(RowsRead) = Len(cols)
              /\ \A k \in 1..Len(cols) : C18_RowFollowsCells(data, RowsRead[k], cols[k])]_vars

\* C18 with the cells of the column the extractor reads, dataColIndex, which
\* is the column of the date when no header cell before it was skipped
C18_DefaultsAtTheColumnRead ==
    [][ReadsOne =>
          LET data == SheetData(job.files[job.idx])
          IN  \A k \in 1..Len(RowsRead) :
                  C18_RowFollowsCells(data, RowsRead[k], dataColIndex(k - 1))]_vars

\* mar.xlsx has been read: the row of 2024-01-05 has score 0 for the text
\* 'abc', null for the missing cell of the ragged row, 24 for the cell 24; and
\* feb.xlsx has cells for 2024-03-10 (score 0.985) the extractor does not read
C18_Witness ==
    /\ job.active
    /\ job.files[1] = "mar.xlsx"
    /\ job.idx = 2
    /\ job.allRows[2]["Date"] = dJan05
    /\ job.allRows[2][MetricNames[1]] = Num(0)
    /\ job.allRows[2][MetricNames[3]] = Null
    /\ job.allRows[2][MetricNames[4]] = Whole(24)
    /\ job.allRows[1][MetricNames[5]] = Null
    /\ RowsOfDoc["feb.xlsx"][2]["Date"] = dMar10
    /\ RowsOfDoc["feb.xlsx"][2][MetricNames[1]] = Num(4500)

\* a header cell that ends the date axis of C19: empty, or 'Total'
IsTerminator(cell) == cell \in {Null, Str(<<>>), Str(hTotal)}

\* C19 as claimed: the date axis ends at the first header cell from column 1
\* on that is empty or 'Total': neither that cell nor a cell to its right
\* yields a row.
C19_ColumnsBeforeTerminator(dateRow) ==
    {c \in 1..(Len(dateRow) - 1) : \A b \in 1..c : ~IsTerminator(dateRow[b + 1])}

C19_AxisEndsAtTerminator ==
    [][ReadsOne =>
          LET dateRow == SheetData(job.files[job.idx])[1]
          IN  Len(RowsRead) <= Cardinality(C19_ColumnsBeforeTerminator(dateRow))]_vars

\* C19 as the extractor has it: a header cell that is empty or 'Total' yields
\* no row and the scan goes on behind it: the rows are those of the header
\* cells from column 1 on that are neither empty nor 'Total' and are a date, in
\* column order; feb.xlsx, with 'Total' in column 1 and an empty cell in column
\* 3, yields the rows of 2024-02-20 (column 2) and 2024-03-10 (column 4).
C19_DatedColumns(dateRow) ==
    SelectSeq([c \in 1..(Len(dateRow) - 1) |-> c],
              LAMBDA c : /\ ~IsTerminator(dateRow[c + 1])
                         /\ \/ dateRow[c + 1].k = "date"
                            \/ dateRow[c + 1].k = "str" /\ ParseDateText(dateRow[c + 1].s).valid
                            \/ /\ dateRow[c + 1].k = "num"
                               /\ dateRow[c + 1].n # 0
                               /\ parse_date_code(dateRow[c + 1].n \div FixedPoint).ok)

C19_TerminatorIsSkipped ==
    [][ReadsOne =>
          LET dateRow == SheetData(job.files[job.idx])[1]
          IN  /\ Len(RowsRead) = Len(C19_DatedColumns(dateRow))
              /\ job.files[job.idx] = "feb.xlsx" => DatesOf(RowsRead) = <<dFeb20, dMar10>>
              /\ job.files[job.idx] = "mar.xlsx" => DatesOf(RowsRead) = <<dMar10, dJan05>>]_vars

\* feb.xlsx has been read: two rows from behind the 'Total' cell
C19_Witness ==
    /\ job.active
    /\ job.files[1] = "feb.xlsx"
    /\ job.idx = 2
    /\ IsTerminator(DataFeb[1][2])
    /\ IsTerminator(DataFeb[1][4])
    /\ DatesOf(job.allRows) = <<dFeb20, dMar10>>

-----------------------------------------------------------------------------
(* Grids with fewer rows than the layouts have *)

\* the document at the cursor is taken up in this step
TakesUp(name) ==
    /\ job.active
    /\ job.files[job.idx] = name
    /\ job' # job

\* the names of the file entries an upload adds in this step
EntriesAdded == {files'[i].fileName : i \in (Len(files) + 1)..Len(files')}

C20_ShortEntriesHaveNoCounts ==
    \A i \in 1..Len(files) : Len(rawData(files[i])) < 4 => files[i].counts = <<>>

C20_WitnessScheduling ==
    /\ Len(files) = 1
    /\ files[1].fileName = "short.xlsx"
    /\ Len(SheetShort) < 4
    /\ ~effectPending
    /\ uniqueWords = <<>>

-----------------------------------------------------------------------------
(* The compiled workbook read back by the extractor *)

\* the rows the extractor yields for the workbook the encoder wrote
DecodeCompiled(allRows) == processExcelFile(CompiledGrid(allRows))

\* two rows agree in the canonical date and in every numeric field
SameRow(a, b) ==
    /\ a["Date"] = b["Date"]
    /\ a["Week#"] = b["Week#"]
    /\ \A i \in 1..Len(MetricNames) : a[MetricNames[i]] = b[MetricNames[i]]

\* C21: round trip: the published collection, encoded by generateCompiledExcel
\* and read back by processExcelFile, yields as many rows as it has, each equal
\* to the original in the canonical date and in all numeric fields.
C21_RoundTrip ==
    ~compiledData.null =>
        LET decoded == DecodeCompiled(compiledData.rows)
        IN  /\ Len(decoded) = Len(compiledData.rows)
            /\ \A i \in 1..Len(decoded) : SameRow(decoded[i], compiledData.rows[i])

\* C21, what the code does: the workbook has one row for each date and the
\* keys in its first row, none of which is a date, so the extractor finds no
\* date column and yields no row at all.
C21_CompiledWorkbookYieldsNoRows ==
    ~compiledData.null =>
        /\ compiledData.rows # <<>>
        /\ ScanDates(CompiledGrid(compiledData.rows)[1], 1) = <<>>
        /\ DecodeCompiled(compiledData.rows) = <<>>

\* mar.xlsx was compiled: two rows published, none read back
C21_Witness ==
    /\ ~compiledData.null
    /\ queue = <<"mar.xlsx">>
    /\ Len(compiledData.rows) = 2
    /\ Len(CompiledGrid(compiledData.rows)) = 3
    /\ DecodeCompiled(compiledData.rows) = <<>>

-----------------------------------------------------------------------------
(* The conversion of a header cell (lines 131-151) in processes of different *)
(* local time zones                                                         *)

\* local time less UTC, in minutes
ZoneOffsets == {0 - 480, 0, 60, 330}

\* calendar days, as days since 1970-01-01
FirstZoneDay == DaysFromCivil(2023, 12, 25)

ZoneDays == FirstZoneDay..(FirstZoneDay + MaxDays)

ZoneForms ==
    {"serial", "date text", "date-time text", "date at UTC midnight",
     "date at local midnight"}

\* the canonical text of a calendar day
DayText(day) == toIsoDateString(day * MinutesPerDay)

\* the header cell that denotes a calendar day in a process at offset: its
\* serial day-number in the 1900 date system, its text, or a Date object at
\* the midnight that begins it, in UTC or in local time
CellOfDay(day, form, offset) ==
    CASE form = "serial" -> Whole(day - DaysFromCivil(1899, 12, 30))
      [] form = "date text" -> Str(DayText(day))
      [] form = "date-time text" ->
             Str(DayText(day) \o <<"T", "0", "0", ":", "0", "0">>)
      [] form = "date at UTC midnight" -> DateCell(day * MinutesPerDay)
      [] form = "date at local midnight" -> DateCell(day * MinutesPerDay - offset)

InitZone ==
    /\ page = "capacity"
    /\ InitSched
    /\ InitComp
    /\ arg \in [day : ZoneDays, form : ZoneForms]
    /\ ret = NoReturn

\* lines 129-152: the cell is converted, by a process at each of the offsets
CallHeaderDate ==
    /\ ret = NoReturn
    /\ ret' = [of |-> arg,
               value |-> [offset \in ZoneOffsets |->
                             HeaderDateAt(CellOfDay(arg.day, arg.form, offset), offset)]]
    /\ UNCHANGED <<arg, page, schedVars, compVars>>

SpecZone == InitZone /\ [][CallHeaderDate]_vars

\* the conversion of the cell of arg has run
ZoneCallDone == "day" \in DOMAIN ret.of

\* C22: the conversion is independent of the time zone: a header cell that
\* denotes a calendar day, as a serial day-number, as a date string or as a
\* native date value, yields the YYYY-MM-DD text of that day under every
\* local offset, and so the same text under any two offsets.
C22_SameDateInEveryZone ==
    ZoneCallDone =>
        \A o1, o2 \in ZoneOffsets :
            /\ ret.value[o1] = ret.value[o2]
            /\ ret.value[o1] = <<DayText(ret.of.day)>>

\* C22, what the code does: the serial day-number, the date-only text and a
\* Date at UTC midnight yield the day in every zone; a date-time text and a
\* Date at local midnight are read through the UTC getters of lines 79-81
\* and yield the day before in every zone ahead of UTC.
C22_SameDateUnlessLocalTime ==
    ZoneCallDone =>
        \A offset \in ZoneOffsets :
            ret.value[offset] =
                IF ret.of.form \in {"date-time text", "date at local midnight"}
                   /\ offset > 0
                THEN <<DayText(ret.of.day - 1)>>
                ELSE <<DayText(ret.of.day)>>

\* the text 2024-03-10T00:00 was converted: 2024-03-10 at UTC, 2024-03-09 one
\* hour ahead of it
C22_Witness ==
    /\ ZoneCallDone
    /\ ret.of.form = "date-time text"
    /\ CellOfDay(ret.of.day, ret.of.form, 60)
           = Str(dMar10 \o <<"T", "0", "0", ":", "0", "0">>)
    /\ ret.value[0] = <<dMar10>>
    /\ ret.value[60] = <<<<"2", "0", "2", "4", "-", "0", "3", "-", "0", "9">>>>

-----------------------------------------------------------------------------
(* The order of rows of the same date *)

\* the rows of a date, in the order they have in rows
RowsOfDate(rows, date) == SelectSeq(rows, LAMBDA r : r["Date"] = date)

\* C23: the merge is stable: in the published collection (sorted at line 418
\* and again by the encoder at line 226) the rows of each date stand in the
\* order they have in the concatenation of the documents' rows, queue order
\* first and column order within a document.
C23_MergeIsStable ==
    [][(CompileEnds /\ ~compiledData'.null) =>
          \A date \in Range(DatesOf(RowsOfBatch(job.files))) :
              RowsOfDate(compiledData'.rows, date)
                  = RowsOfDate(RowsOfBatch(job.files), date)]_vars

\* feb.xlsx and mar.xlsx were compiled in this order: both have a row of
\* 2024-03-10, with different metrics, and the row of feb.xlsx comes first
C23_Witness ==
    /\ ~compiledData.null
    /\ queue = <<"feb.xlsx", "mar.xlsx">>
    /\ Len(compiledData.rows) = 4
    /\ compiledData.rows[3] = RowsOfDoc["feb.xlsx"][2]
    /\ compiledData.rows[4] = RowsOfDoc["mar.xlsx"][1]
    /\ compiledData.rows[3]["Date"] = dMar10
    /\ compiledData.rows[4]["Date"] = dMar10
    /\ compiledData.rows[3] # compiledData.rows[4]

-----------------------------------------------------------------------------
(* Check All / Uncheck All *)

\* the words the modal lists under the search term (line 213)
SelectedWords == Range(filteredWords(uniqueWords, searchTerm))

\* C24: a bulk set with a value stores that value as the flag of every listed
\* word and leaves every other entry as it was, absent entries absent; with an
\* empty search term the listed words are the whole inventory.
C24_BulkSetFrame ==
    [][\A status \in BOOLEAN :
          SetAllVisible(status) =>
              /\ \A w \in SelectedWords :
                     w \in DOMAIN wordFilterState' /\ wordFilterState'[w] = status
              /\ \A w \in (DOMAIN wordFilterState \cup DOMAIN wordFilterState') \ SelectedWords :
                     /\ w \in DOMAIN wordFilterState
                     /\ w \in DOMAIN wordFilterState'
                     /\ wordFilterState'[w] = wordFilterState[w]
              /\ searchTerm = <<>> => SelectedWords = Range(uniqueWords)]_vars

\* Check All under the search term 'A' has just run: of the inventory of
\* mixed.xlsx it lists the one word with an 'a', excluded by default and now
\* included; the word 'A', excluded by an earlier toggle, is not listed and
\* still excluded, and 'constructor' is still without entry
C24_Witness ==
    /\ isModalOpen
    /\ effectPending
    /\ searchTerm = <<"A">>
    /\ SelectedWords = {wDsp}
    /\ wDsp \in DOMAIN wordFilterState /\ wordFilterState[wDsp]
    /\ IsFalse(wordFilterState, wA)
    /\ wConstructor \in Range(uniqueWords) \ DOMAIN wordFilterState

-----------------------------------------------------------------------------
(* Uploads that overlap, and clicks while an upload is decoded *)

\* the words of a document that was decoded
TokensOf(name) == Range(extractUniqueWords(parseExcelFile(name)))

\* every entry of wordFilterState is an entry of wordFilterState', same flag
EntriesKept ==
    \A w \in DOMAIN wordFilterState :
        w \in DOMAIN wordFilterState' /\ wordFilterState'[w] = wordFilterState[w]

\* an upload ends: its decoded files are appended to the file list as it is
\* now, their words join the inventory as it is now, no entry is changed, and
\* the other uploads in flight keep what they have decoded
C25_UploadEnds ==
    Len(uploads') < Len(uploads) =>
        \E u \in 1..Len(uploads) :
            LET call == uploads[u]
                decoded == C10_FileNames(call.newFiles)
                               \o C10_Readable(<<Head(call.selectedFiles)>>)
            IN  /\ uploads' = RemoveAt(uploads, u)
                /\ Len(files') = Len(files) + Len(decoded)
                /\ SubSeq(files', 1, Len(files)) = files
                /\ C10_FileNames(SubSeq(files', Len(files) + 1, Len(files'))) = decoded
                /\ Range(uniqueWords) \subseteq Range(uniqueWords')
                /\ \A i \in 1..Len(decoded) : TokensOf(decoded[i]) \subseteq Range(uniqueWords')
                /\ EntriesKept

\* a click on a word while uploads are in flight: one flag is written, every
\* other entry is kept, and the uploads, the file list and the inventory are
\* as before
C25_ToggleInFlight ==
    (uploads # <<>> /\ uploads' = uploads /\ wordFilterState' # wordFilterState) =>
        /\ C10_FileNames(files') = C10_FileNames(files)
        /\ uniqueWords' = uniqueWords
        /\ \E word \in Range(uniqueWords) :
               /\ wordFilterState' = toggleWord(wordFilterState, word)
               /\ \A w \in DOMAIN wordFilterState \ {word} :
                      wordFilterState'[w] = wordFilterState[w]

\* C25: the updates of the file list, the inventory and the filter state are
\* serialized: under every interleaving of the decoding steps of the uploads
\* and of clicks on words, an upload that ends adds all its decoded files and
\* their words to the current state, a file decoded but not yet added stays
\* with its upload, a click changes one flag of the current state, and the
\* words of every file of the list are in the inventory.
C25_UpdatesAreSerialized ==
    [][/\ C25_UploadEnds
       /\ C25_ToggleInFlight
       /\ (Len(uploads') = Len(uploads) /\ uploads' # uploads) =>
              (files' = files /\ uniqueWords' = uniqueWords
                  /\ wordFilterState' = wordFilterState)
       /\ \A i \in 1..Len(files') :
              TokensOf(files'[i].fileName) \subseteq Range(uniqueWords')]_vars

\* plain.xlsx is in the list, a batch with mixed.xlsx decoded and another
\* document to go is in flight, and the flag of 'A', included by default,
\* was switched off by a click that has just happened or before another
\* upload ended
C25_Witness ==
    /\ effectPending
    /\ C10_FileNames(files) = <<"plain.xlsx">>
    /\ Len(uploads) = 1
    /\ C10_FileNames(uploads[1].newFiles) = <<"mixed.xlsx">>
    /\ Len(uploads[1].selectedFiles) = 1
    /\ IsFalse(wordFilterState, wA)

\* two batches were decoded with their steps interleaved and both have ended:
\* the list holds the files of both and the inventory the words of both
C25_WitnessBothEnded ==
    /\ uploads = <<>>
    /\ C10_FileNames(files) = <<"plain.xlsx", "mixed.xlsx", "plain.xlsx">>
    /\ TokensOf("plain.xlsx") \cup TokensOf("mixed.xlsx") = Range(uniqueWords)
    /\ IsFalse(wordFilterState, wB)

-----------------------------------------------------------------------------
(* Removal of a file from the scheduling page *)

\* C26: the filter state and the inventory outlive the documents: a step that
\* removes file entries changes neither wordFilterState nor uniqueWords, and
\* the entries that stay are the other entries of the list, in their order
\* and with their counts.
C26_RemovalKeepsFilterAndInventory ==
    [][Len(files') < Len(files) =>
          /\ wordFilterState' = wordFilterState
          /\ uniqueWords' = uniqueWords
          /\ uploads' = uploads
          /\ \E gone \in {files[i].id : i \in 1..Len(files)} :
                 LET stay == SelectSeq([i \in 1..Len(files) |-> i],
                                       LAMBDA i : files[i].id # gone)
                 IN  /\ Len(files') = Len(stay)
                     /\ \A k \in 1..Len(stay) :
                            /\ files'[k] = files[stay[k]]
                            /\ files'[k].counts = files[stay[k]].counts]_vars

\* mixed.xlsx was removed and plain.xlsx stays with its counts: the inventory
\* still lists the words of mixed.xlsx and the filter state their flags
C26_Witness ==
    /\ ~effectPending
    /\ C10_FileNames(files) = <<"plain.xlsx">>
    /\ files[1].counts # <<>>
    /\ wDsp \in Range(uniqueWords)
    /\ IsFalse(wordFilterState, wDsp)
    /\ wDsp \notin TokensOf("plain.xlsx")
    /\ uploads = <<>>

\* every file was removed: the inventory and the filter state are still there
C26_WitnessEmptyList ==
    /\ files = <<>>
    /\ uploads = <<>>
    /\ uniqueWords # <<>>
    /\ DOMAIN wordFilterState # {}

-----------------------------------------------------------------------------
(* The published result and the queue *)

\* seq is the beginning of the sequence full
IsPrefix(seq, full) == Len(seq) <= Len(full) /\ SubSeq(full, 1, Len(seq)) = seq

\* C27: a published result was computed from exactly the files in the queue:
\* whenever compiledFileUrl is not null, compiledData holds the sorted rows of
\* the documents of the queue as it is now, also when files were added while
\* the compile was awaiting a file.
C27_PublishedFromQueue ==
    compiledFileUrl # "null" =>
        /\ ~compiledData.null
        /\ compiledData.rows = StableSort(RowsOfBatch(queue))

\* C27, what the code does: the loop of line 392 runs over the files of the
\* render in which Compile was clicked.  Files added during the awaits go to
\* the end of the queue and reset the result (lines 331-333), and the compile
\* then publishes the rows of the files it started with.
C27_PublishedFromFilesAtStart ==
    [][(CompileEnds /\ ~compiledData'.null) =>
          /\ compiledFileUrl' # "null"
          /\ compiledData'.rows = StableSort(RowsOfBatch(job.files))
          /\ IsPrefix(job.files, queue')]_vars

\* feb.xlsx was dropped while mar.xlsx was read: the result is published with
\* the two rows of mar.xlsx, and the queue holds both files
C27_Witness ==
    /\ compiledFileUrl # "null"
    /\ ~isProcessing
    /\ queue = <<"mar.xlsx", "feb.xlsx">>
    /\ compiledData.rows = StableSort(RowsOfDoc["mar.xlsx"])
    /\ Len(StableSort(RowsOfBatch(queue))) = 4

-----------------------------------------------------------------------------
(* The progress flag of the compiler page *)

\* C28: every compile that sets isProcessing to true sets it back to false,
\* whether it publishes a result, finds no rows or has the encoder throw; and
\* a call of compileFiles with an empty queue changes no state of the page
\* (it shows the toast 'No files to compile' and returns).
C28_ProcessingEnds ==
    /\ isProcessing ~> ~isProcessing
    /\ [][(compileFiles /\ queue = <<>>) =>
              (UNCHANGED <<queue, isProcessing, compiledFileUrl, compiledData,
                           showPreview, job>>
                  /\ lastToast' = "No files to compile")]_vars
    /\ [][(isProcessing /\ ~isProcessing') =>
              /\ CompileEnds
              /\ lastToast' \in {"Compilation complete", "No Data", "Compilation failed"}]_vars

\* a compile of mar.xlsx ended with a throw of the encoder: the flag is back
\* to false and nothing is published
C28_Witness ==
    /\ queue = <<"mar.xlsx">>
    /\ lastToast = "Compilation failed"
    /\ ~isProcessing
    /\ ~job.active
    /\ compiledFileUrl = "null"

\* compileFiles was called with an empty queue
C28_WitnessEmptyQueue ==
    /\ queue = <<>>
    /\ lastToast = "No files to compile"
    /\ ~isProcessing
    /\ ~job.active

-----------------------------------------------------------------------------
(* The published URL and the published rows *)

\* the rows are in ascending order of date
AscendingByDate(rows) ==
    \A i \in 1..(Len(rows) - 1) : ~StrLess(rows[i + 1]["Date"], rows[i]["Date"])

\* C29: in every reachable state of the compiler page a non-null
\* compiledFileUrl comes with compiledData that is not null, not empty and in
\* ascending order of date; and every step that changes the queue (files
\* added, a file removed, the queue cleared) leaves compiledFileUrl and
\* compiledData null.
C29_UrlImpliesSortedData ==
    /\ [](compiledFileUrl # "null" =>
              /\ ~compiledData.null
              /\ compiledData.rows # <<>>
              /\ AscendingByDate(compiledData.rows))
    /\ [][queue' # queue =>
              (compiledFileUrl' = "null" /\ compiledData'.null)]_vars

\* a result was published and then a file was removed or the queue cleared:
\* the toast of the compile is still the last one, and the URL and the rows
\* are null again
C29_Witness ==
    /\ lastToast = "Compilation complete"
    /\ ~isProcessing
    /\ compiledFileUrl = "null"
    /\ compiledData.null
    /\ ~showPreview

\* a result of four rows from two documents is published
C29_WitnessPublished ==
    /\ compiledFileUrl # "null"
    /\ queue = <<"mar.xlsx", "feb.xlsx">>
    /\ Len(compiledData.rows) = 4
    /\ AscendingByDate(compiledData.rows)
    /\ ~AscendingByDate(RowsOfBatch(queue))

=============================================================================
